---- MODULE Spec2Model ----
(***************************************************************************)
(* REBA posture-risk application: the in-process scoring engine of         *)
(* reba/static/style.css (a JavaScript file despite its name) and the      *)
(* session / trend tracker of the final client script (unnamed/part_001).  *)
(*                                                                         *)
(* Angles are fixed-point numbers in half degrees: an integer angle of d   *)
(* degrees is the number Deg(d) = 2*d, so that the average of two integer  *)
(* angles, (l + r) / 2 in the source, is exact.                            *)
(***************************************************************************)
EXTENDS Integers, Sequences, FiniteSets, TLC

(* ------------------------------ bounds -------------------------------- *)
\* largest load (kg) offered to the engine
MaxLoad == 11
\* correction offsets range over -MaxCorrection..MaxCorrection
MaxCorrection == 1
\* largest Table C index offered to a direct call of getTableCScore
MaxIndex == 13
\* largest score offered to a direct call of getRiskLevel
MaxScoreArg == 16
\* the clock performance.now() is observed up to this many milliseconds
MaxTime == 1100
\* total number of clicks on the start/stop button
MaxClicks == 4
\* number of updateChart calls made on the trend buffer
MaxTicks == 63
\* number of times the scored pose changes while the buffer is filled
MaxPoseChanges == 1
MaxMissing == 1
MaxDeviations == 2

(* --------------------------- value encodings --------------------------- *)
\* d degrees, in half degrees
Deg(d) == 2 * d

\* Math.abs
Abs(x) == IF x < 0 THEN 0 - x ELSE x

\* a JavaScript value that may be null/undefined: <<>> is null, <<v>> is v
Null == <<>>

Some(v) == <<v>>

IsNull(o) == o = <<>>

(* ------------------------- Table A, B, C lookups ----------------------- *)
\* Table A: key "T,N,L" (trunk, neck, leg)
tableA_Lookup ==
  (<<1, 1, 1>> :> 1) @@ (<<1, 1, 2>> :> 2) @@ (<<1, 1, 3>> :> 3) @@ (<<1, 1, 4>> :> 4) @@
  (<<1, 2, 1>> :> 1) @@ (<<1, 2, 2>> :> 2) @@ (<<1, 2, 3>> :> 3) @@ (<<1, 2, 4>> :> 4) @@
  (<<1, 3, 1>> :> 3) @@ (<<1, 3, 2>> :> 3) @@ (<<1, 3, 3>> :> 5) @@ (<<1, 3, 4>> :> 6) @@
  (<<2, 1, 1>> :> 2) @@ (<<2, 1, 2>> :> 3) @@ (<<2, 1, 3>> :> 4) @@ (<<2, 1, 4>> :> 5) @@
  (<<2, 2, 1>> :> 3) @@ (<<2, 2, 2>> :> 4) @@ (<<2, 2, 3>> :> 5) @@ (<<2, 2, 4>> :> 6) @@
  (<<2, 3, 1>> :> 4) @@ (<<2, 3, 2>> :> 5) @@ (<<2, 3, 3>> :> 6) @@ (<<2, 3, 4>> :> 7) @@
  (<<3, 1, 1>> :> 2) @@ (<<3, 1, 2>> :> 4) @@ (<<3, 1, 3>> :> 5) @@ (<<3, 1, 4>> :> 6) @@
  (<<3, 2, 1>> :> 4) @@ (<<3, 2, 2>> :> 5) @@ (<<3, 2, 3>> :> 6) @@ (<<3, 2, 4>> :> 7) @@
  (<<3, 3, 1>> :> 5) @@ (<<3, 3, 2>> :> 6) @@ (<<3, 3, 3>> :> 7) @@ (<<3, 3, 4>> :> 8) @@
  (<<4, 1, 1>> :> 3) @@ (<<4, 1, 2>> :> 5) @@ (<<4, 1, 3>> :> 6) @@ (<<4, 1, 4>> :> 7) @@
  (<<4, 2, 1>> :> 5) @@ (<<4, 2, 2>> :> 6) @@ (<<4, 2, 3>> :> 7) @@ (<<4, 2, 4>> :> 8) @@
  (<<4, 3, 1>> :> 6) @@ (<<4, 3, 2>> :> 7) @@ (<<4, 3, 3>> :> 8) @@ (<<4, 3, 4>> :> 9) @@
  (<<5, 1, 1>> :> 4) @@ (<<5, 1, 2>> :> 6) @@ (<<5, 1, 3>> :> 7) @@ (<<5, 1, 4>> :> 8) @@
  (<<5, 2, 1>> :> 6) @@ (<<5, 2, 2>> :> 7) @@ (<<5, 2, 3>> :> 8) @@ (<<5, 2, 4>> :> 9) @@
  (<<5, 3, 1>> :> 7) @@ (<<5, 3, 2>> :> 8) @@ (<<5, 3, 3>> :> 9) @@ (<<5, 3, 4>> :> 9)

\* Table B: key "U,F,W" (upper arm, forearm, wrist)
tableB_Lookup ==
  (<<1, 1, 1>> :> 1) @@ (<<1, 1, 2>> :> 2) @@ (<<1, 1, 3>> :> 2) @@
  (<<1, 2, 1>> :> 1) @@ (<<1, 2, 2>> :> 2) @@ (<<1, 2, 3>> :> 3) @@
  (<<2, 1, 1>> :> 1) @@ (<<2, 1, 2>> :> 2) @@ (<<2, 1, 3>> :> 3) @@
  (<<2, 2, 1>> :> 2) @@ (<<2, 2, 2>> :> 3) @@ (<<2, 2, 3>> :> 4) @@
  (<<3, 1, 1>> :> 3) @@ (<<3, 1, 2>> :> 4) @@ (<<3, 1, 3>> :> 5) @@
  (<<3, 2, 1>> :> 4) @@ (<<3, 2, 2>> :> 5) @@ (<<3, 2, 3>> :> 5) @@
  (<<4, 1, 1>> :> 4) @@ (<<4, 1, 2>> :> 5) @@ (<<4, 1, 3>> :> 5) @@
  (<<4, 2, 1>> :> 5) @@ (<<4, 2, 2>> :> 6) @@ (<<4, 2, 3>> :> 7) @@
  (<<5, 1, 1>> :> 6) @@ (<<5, 1, 2>> :> 7) @@ (<<5, 1, 3>> :> 8) @@
  (<<5, 2, 1>> :> 7) @@ (<<5, 2, 2>> :> 8) @@ (<<5, 2, 3>> :> 8) @@
  (<<6, 1, 1>> :> 7) @@ (<<6, 1, 2>> :> 8) @@ (<<6, 1, 3>> :> 8) @@
  (<<6, 2, 1>> :> 8) @@ (<<6, 2, 2>> :> 9) @@ (<<6, 2, 3>> :> 9)

\* Table C: key "scoreA,scoreB"
tableC_Lookup ==
  (<<1, 1>> :> 1) @@ (<<1, 2>> :> 1) @@ (<<1, 3>> :> 1) @@ (<<1, 4>> :> 2) @@ (<<1, 5>> :> 3) @@ (<<1, 6>> :> 3) @@ (<<1, 7>> :> 4) @@ (<<1, 8>> :> 5) @@ (<<1, 9>> :> 6) @@ (<<1, 10>> :> 7) @@ (<<1, 11>> :> 7) @@ (<<1, 12>> :> 7) @@
  (<<2, 1>> :> 1) @@ (<<2, 2>> :> 2) @@ (<<2, 3>> :> 2) @@ (<<2, 4>> :> 3) @@ (<<2, 5>> :> 4) @@ (<<2, 6>> :> 4) @@ (<<2, 7>> :> 5) @@ (<<2, 8>> :> 6) @@ (<<2, 9>> :> 6) @@ (<<2, 10>> :> 7) @@ (<<2, 11>> :> 7) @@ (<<2, 12>> :> 8) @@
  (<<3, 1>> :> 2) @@ (<<3, 2>> :> 3) @@ (<<3, 3>> :> 3) @@ (<<3, 4>> :> 4) @@ (<<3, 5>> :> 5) @@ (<<3, 6>> :> 6) @@ (<<3, 7>> :> 7) @@ (<<3, 8>> :> 7) @@ (<<3, 9>> :> 7) @@ (<<3, 10>> :> 8) @@ (<<3, 11>> :> 8) @@ (<<3, 12>> :> 8) @@
  (<<4, 1>> :> 3) @@ (<<4, 2>> :> 4) @@ (<<4, 3>> :> 4) @@ (<<4, 4>> :> 4) @@ (<<4, 5>> :> 5) @@ (<<4, 6>> :> 6) @@ (<<4, 7>> :> 7) @@ (<<4, 8>> :> 8) @@ (<<4, 9>> :> 8) @@ (<<4, 10>> :> 9) @@ (<<4, 11>> :> 9) @@ (<<4, 12>> :> 9) @@
  (<<5, 1>> :> 4) @@ (<<5, 2>> :> 4) @@ (<<5, 3>> :> 4) @@ (<<5, 4>> :> 5) @@ (<<5, 5>> :> 6) @@ (<<5, 6>> :> 7) @@ (<<5, 7>> :> 8) @@ (<<5, 8>> :> 8) @@ (<<5, 9>> :> 9) @@ (<<5, 10>> :> 9) @@ (<<5, 11>> :> 9) @@ (<<5, 12>> :> 9) @@
  (<<6, 1>> :> 6) @@ (<<6, 2>> :> 6) @@ (<<6, 3>> :> 6) @@ (<<6, 4>> :> 7) @@ (<<6, 5>> :> 8) @@ (<<6, 6>> :> 8) @@ (<<6, 7>> :> 9) @@ (<<6, 8>> :> 9) @@ (<<6, 9>> :> 10) @@ (<<6, 10>> :> 10) @@ (<<6, 11>> :> 10) @@ (<<6, 12>> :> 10) @@
  (<<7, 1>> :> 7) @@ (<<7, 2>> :> 7) @@ (<<7, 3>> :> 7) @@ (<<7, 4>> :> 8) @@ (<<7, 5>> :> 9) @@ (<<7, 6>> :> 9) @@ (<<7, 7>> :> 9) @@ (<<7, 8>> :> 10) @@ (<<7, 9>> :> 10) @@ (<<7, 10>> :> 11) @@ (<<7, 11>> :> 11) @@ (<<7, 12>> :> 11) @@
  (<<8, 1>> :> 8) @@ (<<8, 2>> :> 8) @@ (<<8, 3>> :> 8) @@ (<<8, 4>> :> 9) @@ (<<8, 5>> :> 10) @@ (<<8, 6>> :> 10) @@ (<<8, 7>> :> 10) @@ (<<8, 8>> :> 10) @@ (<<8, 9>> :> 11) @@ (<<8, 10>> :> 11) @@ (<<8, 11>> :> 11) @@ (<<8, 12>> :> 12) @@
  (<<9, 1>> :> 9) @@ (<<9, 2>> :> 9) @@ (<<9, 3>> :> 9) @@ (<<9, 4>> :> 10) @@ (<<9, 5>> :> 10) @@ (<<9, 6>> :> 11) @@ (<<9, 7>> :> 11) @@ (<<9, 8>> :> 11) @@ (<<9, 9>> :> 12) @@ (<<9, 10>> :> 12) @@ (<<9, 11>> :> 12) @@ (<<9, 12>> :> 12) @@
  (<<10, 1>> :> 10) @@ (<<10, 2>> :> 10) @@ (<<10, 3>> :> 10) @@ (<<10, 4>> :> 11) @@ (<<10, 5>> :> 11) @@ (<<10, 6>> :> 11) @@ (<<10, 7>> :> 12) @@ (<<10, 8>> :> 12) @@ (<<10, 9>> :> 12) @@ (<<10, 10>> :> 12) @@ (<<10, 11>> :> 12) @@ (<<10, 12>> :> 12) @@
  (<<11, 1>> :> 11) @@ (<<11, 2>> :> 11) @@ (<<11, 3>> :> 11) @@ (<<11, 4>> :> 12) @@ (<<11, 5>> :> 12) @@ (<<11, 6>> :> 12) @@ (<<11, 7>> :> 12) @@ (<<11, 8>> :> 12) @@ (<<11, 9>> :> 12) @@ (<<11, 10>> :> 12) @@ (<<11, 11>> :> 12) @@ (<<11, 12>> :> 12) @@
  (<<12, 1>> :> 12) @@ (<<12, 2>> :> 12) @@ (<<12, 3>> :> 12) @@ (<<12, 4>> :> 12) @@ (<<12, 5>> :> 12) @@ (<<12, 6>> :> 12) @@ (<<12, 7>> :> 12) @@ (<<12, 8>> :> 12) @@ (<<12, 9>> :> 12) @@ (<<12, 10>> :> 12) @@ (<<12, 11>> :> 12) @@ (<<12, 12>> :> 12)

\* a load of exactly 5 kg still counted as light
calcLoadScoreFiveIsLight(loadKg) ==
  IF loadKg <= 5 THEN 0
  ELSE IF loadKg <= 10 THEN 1
  ELSE 2

calcLoadScore(loadKg) ==
  IF loadKg < 5 THEN 0
  ELSE IF loadKg <= 10 THEN 1
  ELSE 2

\* tableA_Lookup[key] ?? 1, plus the load score
getScoreAKeyOrder(trunk, neck, leg, loadKg) ==
  LET key == <<neck, trunk, leg>>
      base == IF key \in DOMAIN tableA_Lookup THEN tableA_Lookup[key] ELSE 1
  IN  base + calcLoadScore(loadKg)

getScoreA(trunk, neck, leg, loadKg) ==
  LET key == <<trunk, neck, leg>>
      base == IF key \in DOMAIN tableA_Lookup THEN tableA_Lookup[key] ELSE 1
  IN  base + calcLoadScore(loadKg)

\* a coupling value that is taken off the Table B entry
getScoreBCouplingCredit(upperArm, forearm, wrist, coupling) ==
  LET key == <<upperArm, forearm, wrist>>
      base == IF key \in DOMAIN tableB_Lookup THEN tableB_Lookup[key] ELSE 1
  IN  base - coupling

\* tableB_Lookup[key] ?? 1, plus the coupling value
getScoreB(upperArm, forearm, wrist, coupling) ==
  LET key == <<upperArm, forearm, wrist>>
      base == IF key \in DOMAIN tableB_Lookup THEN tableB_Lookup[key] ELSE 1
  IN  base + coupling

\* tableC_Lookup[key] || 1: a missing entry, or an entry 0, gives 1
getTableCScore(scoreA, scoreB) ==
  LET key == <<scoreA, scoreB>>
  IN  IF key \in DOMAIN tableC_Lookup /\ tableC_Lookup[key] # 0
      THEN tableC_Lookup[key]
      ELSE 1

(* ------------------------ sub-score calculations ----------------------- *)
\* rotation and side bending of the neck each adding a point of their own
calcNeckScoreAddsBoth(neckAngle, rotationFlag, sideBendFlag) ==
  LET base == IF neckAngle <= Deg(20) THEN 1 ELSE 2
  IN  base + (IF rotationFlag THEN 1 ELSE 0) + (IF sideBendFlag THEN 1 ELSE 0)

\* a neck that counts as bent from 10 degrees on
calcNeckScoreFromTen(neckAngle, rotationFlag, sideBendFlag) ==
  LET base == IF neckAngle < Deg(10) THEN 1 ELSE 2
  IN  base + (IF rotationFlag \/ sideBendFlag THEN 1 ELSE 0)

calcNeckScore(neckAngle, rotationFlag, sideBendFlag) ==
  LET base == IF neckAngle <= Deg(20) THEN 1 ELSE 2
  IN  base + (IF rotationFlag \/ sideBendFlag THEN 1 ELSE 0)

\* rotation and side bending each adding a point of their own
calcTrunkScoreAddsBoth(trunkFlexAngle, rotationFlag, sideBendFlag) ==
  LET base == IF trunkFlexAngle = 0 THEN 1
              ELSE IF trunkFlexAngle <= Deg(20) THEN 2
              ELSE IF trunkFlexAngle <= Deg(60) THEN 3
              ELSE 4
  IN  base + (IF rotationFlag THEN 1 ELSE 0) + (IF sideBendFlag THEN 1 ELSE 0)

calcTrunkScore(trunkFlexAngle, rotationFlag, sideBendFlag) ==
  LET base == IF trunkFlexAngle = 0 THEN 1
              ELSE IF trunkFlexAngle <= Deg(20) THEN 2
              ELSE IF trunkFlexAngle <= Deg(60) THEN 3
              ELSE 4
  IN  base + (IF rotationFlag \/ sideBendFlag THEN 1 ELSE 0)

\* the knee band taken without its end points
calcLegScoreOpenBand(postureCategory, kneeFlexAngle) ==
  IF postureCategory = "sittingWalking" THEN 1
  ELSE LET base == IF postureCategory = "standingBoth" THEN 1 ELSE 2
           add  == IF kneeFlexAngle > Deg(30) /\ kneeFlexAngle < Deg(60) THEN 1
                   ELSE IF kneeFlexAngle > Deg(60) THEN 2
                   ELSE 0
       IN  base + add

\* sitting or walking treated as a base of 1 to which the knee adjustment
\* is still added
calcLegScoreSittingBase(postureCategory, kneeFlexAngle) ==
  LET base == IF postureCategory \in {"sittingWalking", "standingBoth"} THEN 1 ELSE 2
      add  == IF kneeFlexAngle >= Deg(30) /\ kneeFlexAngle <= Deg(60) THEN 1
              ELSE IF kneeFlexAngle > Deg(60) THEN 2
              ELSE 0
  IN  base + add

calcLegScoreUnified(postureCategory, kneeFlexAngle) ==
  IF postureCategory = "sittingWalking" THEN 1
  ELSE LET base == IF postureCategory = "standingBoth" THEN 1 ELSE 2
           add  == IF kneeFlexAngle >= Deg(30) /\ kneeFlexAngle <= Deg(60) THEN 1
                   ELSE IF kneeFlexAngle > Deg(60) THEN 2
                   ELSE 0
       IN  base + add

\* the corrected upper-arm score returned without the lower clamp
calcUpperArmScoreNoFloor(upperArmAngle, upperArmCorrection, shoulderElevation, gravityAssist) ==
  LET absAngle == Abs(upperArmAngle)
      base == IF absAngle <= Deg(20) THEN 1
              ELSE IF absAngle <= Deg(45) THEN 2
              ELSE IF absAngle <= Deg(90) THEN 3
              ELSE 4
      corrected == base + upperArmCorrection + shoulderElevation + gravityAssist
  IN  IF corrected > 6 THEN 6 ELSE corrected

calcUpperArmScore(upperArmAngle, upperArmCorrection, shoulderElevation, gravityAssist) ==
  LET absAngle == Abs(upperArmAngle)
      base == IF absAngle <= Deg(20) THEN 1
              ELSE IF absAngle <= Deg(45) THEN 2
              ELSE IF absAngle <= Deg(90) THEN 3
              ELSE 4
      corrected == base + upperArmCorrection + shoulderElevation + gravityAssist
  IN  IF corrected < 1 THEN 1
      ELSE IF corrected > 6 THEN 6
      ELSE corrected

calcForearmScore(elbowAngle) ==
  IF elbowAngle >= Deg(60) /\ elbowAngle <= Deg(100) THEN 1 ELSE 2

\* the corrected wrist score returned without the lower clamp
calcWristScoreNoFloor(wristAngle, wristCorrection) ==
  LET base  == IF wristAngle > Deg(15) THEN 2 ELSE 1
      score == base + wristCorrection
  IN  IF score > 3 THEN 3 ELSE score

calcWristScore(wristAngle, wristCorrection) ==
  LET base  == IF wristAngle > Deg(15) THEN 2 ELSE 1
      score == base + wristCorrection
  IN  IF score < 1 THEN 1
      ELSE IF score > 3 THEN 3
      ELSE score

(* -------------------------- body-part evaluation ----------------------- *)
evaluateTrunk(computedAngles, calibInputs) ==
  LET rotationFlag == Abs(computedAngles.trunkRotationAngle) >= Deg(10)
      sideBendFlag == calibInputs.trunkLateralFlexion > 0
  IN  calcTrunkScore(computedAngles.trunkFlexionAngle, rotationFlag, sideBendFlag)

evaluateNeck(computedAngles, calibInputs) ==
  LET rotationFlag == calibInputs.neckRotation > 0
      sideBendFlag == calibInputs.neckLateralBending > 0
  IN  calcNeckScore(computedAngles.neckAngle, rotationFlag, sideBendFlag)

\* the average of two half-degree values of whole degrees is exact
evaluateLeg(computedAngles, calibInputs) ==
  LET avgKnee == (computedAngles.leftKneeAngle + computedAngles.rightKneeAngle) \div 2
  IN  calcLegScoreUnified(calibInputs.postureCategory, avgKnee)

evaluateUpperArm(computedAngles, calibInputs) ==
  LET avg == (computedAngles.leftShoulderAngle + computedAngles.rightShoulderAngle) \div 2
  IN  calcUpperArmScore(avg, calibInputs.upperArmCorrection,
                        calibInputs.shoulderElevation, calibInputs.gravityAssist)

evaluateForearm(computedAngles) ==
  LET avg == (computedAngles.leftElbowAngle + computedAngles.rightElbowAngle) \div 2
  IN  calcForearmScore(avg)

evaluateWrist(computedAngles, calibInputs) ==
  LET avg == (computedAngles.leftWristAngle + computedAngles.rightWristAngle) \div 2
  IN  calcWristScore(avg, calibInputs.wristCorrection)

evaluateActivity(calibInputs) ==
  calibInputs.staticPosture + calibInputs.repetitiveMovement + calibInputs.unstableMovement

\* a final score cut off at the top of Table C
finalScoreClampTwelve(scoreA, scoreB, activityScore) ==
  LET tableCScore == getTableCScore(scoreA, scoreB)
      finalScore  == tableCScore + activityScore
  IN  IF finalScore > 12 THEN 12
      ELSE IF finalScore < 1 THEN 1
      ELSE finalScore

\* table C lookup, activity score and the clamp to [1,15] that end
\* getFinalREBAScore
finalScoreAdditive(scoreA, scoreB, activityScore) ==
  scoreA + scoreB + activityScore

finalScoreFrom(scoreA, scoreB, activityScore) ==
  LET tableCScore == getTableCScore(scoreA, scoreB)
      finalScore  == tableCScore + activityScore
  IN  IF finalScore > 15 THEN 15
      ELSE IF finalScore < 1 THEN 1
      ELSE finalScore

\* risk labels, in the source: "無視できる", "低リスク", "中リスク", "高リスク",
\* "非常に高リスク"
getRiskLevelShifted(score) ==
  IF score = 1 THEN "Negligible"
  ELSE IF score >= 2 /\ score < 3 THEN "Low"
  ELSE IF score >= 3 /\ score <= 7 THEN "Medium"
  ELSE IF score >= 8 /\ score <= 10 THEN "High"
  ELSE "Very High"

getRiskLevel(score) ==
  IF score = 1 THEN "Negligible"
  ELSE IF score >= 2 /\ score <= 3 THEN "Low"
  ELSE IF score >= 4 /\ score <= 7 THEN "Medium"
  ELSE IF score >= 8 /\ score <= 10 THEN "High"
  ELSE "Very High"

(* --------------------------- engine inputs ----------------------------- *)
\* 0/1 radio-button flags
Flags == {0, 1}

Corrections == (0 - MaxCorrection)..MaxCorrection

Couplings == 0..3

Loads == 0..MaxLoad

PostureCategories == {"standingBoth", "standingOne", "sittingWalking", ""}

TrunkFlexionAngles == {Deg(d) : d \in {0, 1, 20, 21, 60, 61, 180}}

TrunkRotationAngles == {Deg(d) : d \in {0 - 350, 0 - 10, 0 - 9, 0, 9, 10, 350}}

NeckAngles == {Deg(d) : d \in {0, 10, 20, 21, 180}}

KneeAngles == {Deg(d) : d \in {0, 10, 29, 30, 31, 59, 60, 61, 170, 180}}

ShoulderAngles == {Deg(d) : d \in {0, 20, 21, 45, 46, 90, 91, 180}}

ElbowAngles == {Deg(d) : d \in {0, 59, 60, 61, 100, 101, 180}}

WristAngles == {Deg(d) : d \in {0, 15, 16, 180}}

(* ------------------------------- state --------------------------------- *)
VARIABLES
  pc,               \* the statement of the engine that ran last
  args,             \* the inputs that statement read
  ret,              \* the value it produced
  env               \* the local variables still live after it

engineVars == <<pc, args, ret, env>>

EngineInit ==
  /\ pc = "idle"
  /\ args = << >>
  /\ ret = 0
  /\ env = << >>

(* ======================= session / trend tracker ======================= *)
\* API call interval (ms)
apiCallInterval == 500

\* largest number of points the chart shows
chartDataPoints == 60

\* steps by which the clock is observed to advance (ms)
Deltas == {250, 251}

\* bodies the scoring endpoint answers with: final_score, risk_level and
\* intermediate_scores may each be missing
ApiScored(s, a, b) ==
  [final_score |-> Some(s), risk_level |-> Some(getRiskLevel(s)),
   intermediate_scores |-> Some([scoreA |-> Some(a), scoreB |-> Some(b)])]

ApiResponses ==
  { ApiScored(3, 2, 3), ApiScored(9, 7, 5),
    [final_score |-> Null, risk_level |-> Null,
     intermediate_scores |-> Some([scoreA |-> Some(2), scoreB |-> Null])],
    [final_score |-> Some(5), risk_level |-> Some(getRiskLevel(5)),
     intermediate_scores |-> Null] }

FailureKinds == {"network", "http", "empty"}

VARIABLES
  modelState,       \* "loading", "ready" (poseLandmarker set, button enabled), "failed"
  rebaChart,        \* TRUE when the Chart instance exists
  webcamRunning,
  now,              \* performance.now()
  lastApiCallTime,
  maxRebaScore,
  chartData,        \* [labels, datasets], datasets = <<final, scoreA, scoreB>>
  scoreDisplay,     \* what scoreDisplay.innerHTML shows, as a tuple
  gumPending,       \* getUserMedia promises not yet settled
  srcObject,        \* TRUE when a stream is attached to the video element
  videoLoaded,      \* TRUE once the attached stream has fired loadeddata
  loadedListeners,  \* registered once-listeners for loadeddata
  rafPending,       \* pending requestAnimationFrame(predictWebcam) callbacks
  inflight,         \* fetches issued and not yet settled: [t, session]
  session,          \* history: number of start clicks so far
  clicks,           \* history: number of clicks so far
  lastClick,        \* history: "none", "start" or "stop"
  issued,           \* history: times at which a request was issued
  failures,         \* history: times at which a fetch failed, in order
  processed         \* history: final scores of the responses handled since the last start

sessionVars ==
  <<modelState, rebaChart, webcamRunning, now, lastApiCallTime, maxRebaScore,
    chartData, scoreDisplay, gumPending, srcObject, videoLoaded,
    loadedListeners, rafPending, inflight, session, clicks, lastClick, issued,
    failures, processed>>

vars == <<pc, args, ret, env, modelState, rebaChart, webcamRunning, now,
          lastApiCallTime, maxRebaScore, chartData, scoreDisplay, gumPending,
          srcObject, videoLoaded, loadedListeners, rafPending, inflight,
          session, clicks, lastClick, issued, failures, processed>>

emptyChart == [labels |-> << >>, datasets |-> << << >>, << >>, << >> >>]

\* the globals as the script's top level leaves them, initPoseLandmarker
\* having run up to its first await
SessionInit ==
  /\ modelState = "loading"
  /\ rebaChart = FALSE
  /\ webcamRunning = FALSE
  /\ now = 0
  /\ lastApiCallTime = 0
  /\ maxRebaScore = 0
  /\ chartData = emptyChart
  /\ scoreDisplay = <<"preparing">>
  /\ gumPending = 0
  /\ srcObject = FALSE
  /\ videoLoaded = FALSE
  /\ loadedListeners = 0
  /\ rafPending = 0
  /\ inflight = {}
  /\ session = 0
  /\ clicks = 0
  /\ lastClick = "none"
  /\ issued = {}
  /\ failures = << >>
  /\ processed = {}

(* ---------------- getFinalREBAScore, statement by statement ------------ *)
\* Every field of computedAngles and calibInputs is read by exactly one
\* statement, so each statement draws the fields it reads.
EvalTrunkFrom(states) ==
  /\ pc \in states
  /\ \E flex \in TrunkFlexionAngles, rot \in TrunkRotationAngles, lat \in Flags :
       LET computedAngles == [trunkFlexionAngle |-> flex, trunkRotationAngle |-> rot]
           calibInputs == [trunkLateralFlexion |-> lat]
           trunkScore == evaluateTrunk(computedAngles, calibInputs)
       IN  /\ args' = [computedAngles |-> computedAngles, calibInputs |-> calibInputs]
           /\ ret' = trunkScore
           /\ env' = [trunkScore |-> trunkScore]
  /\ pc' = "trunk"
  /\ UNCHANGED sessionVars

\* getFinalREBAScore called on its own
EvalTrunk == EvalTrunkFrom({"idle", "final"})

EvalNeck ==
  /\ pc = "trunk"
  /\ \E neck \in NeckAngles, rot \in Flags, lat \in Flags :
       LET computedAngles == [neckAngle |-> neck]
           calibInputs == [neckRotation |-> rot, neckLateralBending |-> lat]
           neckScore == evaluateNeck(computedAngles, calibInputs)
       IN  /\ args' = [computedAngles |-> computedAngles, calibInputs |-> calibInputs]
           /\ ret' = neckScore
           /\ env' = [trunkScore |-> env.trunkScore, neckScore |-> neckScore]
  /\ pc' = "neck"
  /\ UNCHANGED sessionVars

EvalLeg ==
  /\ pc = "neck"
  /\ \E l \in KneeAngles, r \in KneeAngles, posture \in PostureCategories :
       LET computedAngles == [leftKneeAngle |-> l, rightKneeAngle |-> r]
           calibInputs == [postureCategory |-> posture]
           legScore == evaluateLeg(computedAngles, calibInputs)
       IN  /\ args' = [computedAngles |-> computedAngles, calibInputs |-> calibInputs]
           /\ ret' = legScore
           /\ env' = [trunkScore |-> env.trunkScore, neckScore |-> env.neckScore,
                      legScore |-> legScore]
  /\ pc' = "leg"
  /\ UNCHANGED sessionVars

ScoreA ==
  /\ pc = "leg"
  /\ \E load \in Loads :
       LET scoreA == getScoreA(env.trunkScore, env.neckScore, env.legScore, load)
       IN  /\ args' = [trunk |-> env.trunkScore, neck |-> env.neckScore,
                       leg |-> env.legScore, loadForce |-> load]
           /\ ret' = scoreA
           /\ env' = [scoreA |-> scoreA]
  /\ pc' = "scoreA"
  /\ UNCHANGED sessionVars

EvalUpperArm ==
  /\ pc = "scoreA"
  /\ \E l \in ShoulderAngles, r \in ShoulderAngles,
        c \in Corrections, e \in Corrections, g \in Corrections :
       LET computedAngles == [leftShoulderAngle |-> l, rightShoulderAngle |-> r]
           calibInputs == [upperArmCorrection |-> c, shoulderElevation |-> e,
                           gravityAssist |-> g]
           upperArmScore == evaluateUpperArm(computedAngles, calibInputs)
       IN  /\ args' = [computedAngles |-> computedAngles, calibInputs |-> calibInputs]
           /\ ret' = upperArmScore
           /\ env' = [scoreA |-> env.scoreA, upperArmScore |-> upperArmScore]
  /\ pc' = "upperArm"
  /\ UNCHANGED sessionVars

EvalForearm ==
  /\ pc = "upperArm"
  /\ \E l \in ElbowAngles, r \in ElbowAngles :
       LET computedAngles == [leftElbowAngle |-> l, rightElbowAngle |-> r]
           forearmScore == evaluateForearm(computedAngles)
       IN  /\ args' = [computedAngles |-> computedAngles]
           /\ ret' = forearmScore
           /\ env' = [scoreA |-> env.scoreA, upperArmScore |-> env.upperArmScore,
                      forearmScore |-> forearmScore]
  /\ pc' = "forearm"
  /\ UNCHANGED sessionVars

EvalWrist ==
  /\ pc = "forearm"
  /\ \E l \in WristAngles, r \in WristAngles, c \in Corrections :
       LET computedAngles == [leftWristAngle |-> l, rightWristAngle |-> r]
           calibInputs == [wristCorrection |-> c]
           wristScore == evaluateWrist(computedAngles, calibInputs)
       IN  /\ args' = [computedAngles |-> computedAngles, calibInputs |-> calibInputs]
           /\ ret' = wristScore
           /\ env' = [scoreA |-> env.scoreA, upperArmScore |-> env.upperArmScore,
                      forearmScore |-> env.forearmScore, wristScore |-> wristScore]
  /\ pc' = "wrist"
  /\ UNCHANGED sessionVars

ScoreB ==
  /\ pc = "wrist"
  /\ \E coupling \in Couplings :
       LET scoreB == getScoreB(env.upperArmScore, env.forearmScore, env.wristScore, coupling)
       IN  /\ args' = [upperArm |-> env.upperArmScore, forearm |-> env.forearmScore,
                       wrist |-> env.wristScore, coupling |-> coupling]
           /\ ret' = scoreB
           /\ env' = [scoreA |-> env.scoreA, scoreB |-> scoreB]
  /\ pc' = "scoreB"
  /\ UNCHANGED sessionVars

FinalScore ==
  /\ pc = "scoreB"
  /\ \E st \in Flags, rep \in Flags, un \in Flags :
       LET calibInputs == [staticPosture |-> st, repetitiveMovement |-> rep,
                           unstableMovement |-> un]
           activityScore == evaluateActivity(calibInputs)
           finalScore == finalScoreFrom(env.scoreA, env.scoreB, activityScore)
       IN  /\ args' = [scoreA |-> env.scoreA, scoreB |-> env.scoreB,
                       calibInputs |-> calibInputs]
           /\ ret' = finalScore
           /\ env' = [tableCScore |-> getTableCScore(env.scoreA, env.scoreB),
                      activityScore |-> activityScore,
                      finalScore |-> finalScore,
                      riskLevel |-> getRiskLevel(finalScore)]
  /\ pc' = "final"
  /\ UNCHANGED sessionVars

EngineNext ==
  \/ EvalTrunk
  \/ EvalNeck
  \/ EvalLeg
  \/ ScoreA
  \/ EvalUpperArm
  \/ EvalForearm
  \/ EvalWrist
  \/ ScoreB
  \/ FinalScore

(* ------------- one detected landmark set of predictWebcam -------------- *)
\* a landmark set is modelled by the set of indices at which it holds a
\* landmark; MediaPipe Pose numbers them 0..32
AllLandmarks == 0..32

\* the sets of at most n indices
RECURSIVE IndexSets(_)
IndexSets(n) ==
  IF n = 0 THEN {{}}
  ELSE LET smaller == IndexSets(n - 1)
       IN  smaller \cup {m \cup {i} : m \in smaller, i \in AllLandmarks}

LandmarkSets == {AllLandmarks \ m : m \in IndexSets(MaxMissing)}

\* a required list that stops at the ankles of one side
requiredWithoutRightAnkle == <<0, 11, 13, 15, 19, 23, 25, 27, 12, 14, 16, 20, 24, 26>>

required == <<0, 11, 13, 15, 19, 23, 25, 27, 12, 14, 16, 20, 24, 26, 28>>

\* the loop over required: the first index without a landmark, Null if none
RECURSIVE firstMissing(_, _)
firstMissing(landmarks, i) ==
  IF i > Len(required) THEN Null
  ELSE IF required[i] \notin landmarks THEN Some(required[i])
  ELSE firstMissing(landmarks, i + 1)

\* computeAllAngles on one landmark set, and the branch predictWebcam takes
\* on its result: null ends the frame with a warning, anything else goes on
\* to getFinalREBAScore (whose statements draw the angles they read)
ComputeAllAngles ==
  /\ pc \in {"idle", "final", "noAngles"}
  /\ \E landmarks \in LandmarkSets :
       LET missing == firstMissing(landmarks, 1)
       IN  /\ args' = [landmarks |-> landmarks]
           /\ IF IsNull(missing)
              THEN /\ pc' = "angles"
                   /\ ret' = Some("computedAngles")
                   /\ env' = << >>
              ELSE /\ pc' = "noAngles"
                   /\ ret' = Null
                   /\ env' = [warning |-> missing[1]]
  /\ UNCHANGED sessionVars

\* getFinalREBAScore called by predictWebcam on computed angles
FrameEvalTrunk == EvalTrunkFrom({"angles"})

FrameNext ==
  \/ ComputeAllAngles
  \/ FrameEvalTrunk
  \/ EvalNeck
  \/ EvalLeg
  \/ ScoreA
  \/ EvalUpperArm
  \/ EvalForearm
  \/ EvalWrist
  \/ ScoreB
  \/ FinalScore

(* --------------------------- getCalibrationInputs ---------------------- *)
\* JavaScript values of the record's fields
JsString(s) == <<"string", s>>
JsNumber(n) == <<"number", n>>
NaN == <<"NaN">>

\* Number(element.value) on the value strings used here
Number(s) ==
  IF s = "0" THEN JsNumber(0)
  ELSE IF s = "1" THEN JsNumber(1)
  ELSE IF s = "" THEN JsNumber(0)
  ELSE NaN

names ==
  <<"filmingSide", "neckRotation", "neckLateralBending", "trunkLateralFlexion",
    "loadForce", "shockForce", "postureCategory", "supportingLeg",
    "upperArmCorrection", "shoulderElevation", "gravityAssist", "wristCorrection",
    "wristAngleScore", "staticPosture", "repetitiveMovement", "unstableMovement",
    "coupling">>

\* the names of the version without shockForce, supportingLeg and
\* wristAngleScore
namesChart ==
  <<"filmingSide", "neckRotation", "neckLateralBending", "trunkLateralFlexion",
    "loadForce", "postureCategory", "upperArmCorrection", "shoulderElevation",
    "gravityAssist", "wristCorrection", "staticPosture", "repetitiveMovement",
    "unstableMovement", "coupling">>

InputNames == {names[i] : i \in 1..Len(names)}

\* the form: for every input name the value of its checked radio button,
\* Null when none is checked. All but MaxDeviations names hold an ordinary
\* value; the others are unchecked or hold a value that is not a number.
ordinaryValue(name) ==
  IF name = "filmingSide" THEN "left"
  ELSE IF name = "postureCategory" THEN "standingBoth"
  ELSE IF name = "supportingLeg" THEN "right"
  ELSE "1"

RECURSIVE NameSets(_)
NameSets(n) ==
  IF n = 0 THEN {{}}
  ELSE LET smaller == NameSets(n - 1)
       IN  smaller \cup {m \cup {name} : m \in smaller, name \in InputNames}

Forms ==
  UNION {{[name \in InputNames |->
             IF name \in m THEN k[name] ELSE Some(ordinaryValue(name))]
          : k \in [m -> {Null, Some("abc")}]}
         : m \in NameSets(MaxDeviations)}

emptyRecord == [name \in {} |-> Null]

\* the loop of the final version: every name gets a value
RECURSIVE calibrationLoop(_, _, _)
calibrationLoop(form, i, data) ==
  IF i > Len(names) THEN data
  ELSE LET name == names[i]
           element == form[name]
           value == Number(element[1])
           field ==
             IF ~IsNull(element)
             THEN IF name = "filmingSide" \/ name = "postureCategory" \/ name = "supportingLeg"
                  THEN JsString(element[1])
                  ELSE IF value = NaN THEN JsNumber(0) ELSE value
             ELSE IF name = "filmingSide" \/ name = "postureCategory" THEN JsString("")
             ELSE IF name = "supportingLeg" THEN JsString("left")
             ELSE IF name = "wristAngleScore" THEN JsNumber(1)
             ELSE JsNumber(0)
       IN  calibrationLoop(form, i + 1, data @@ (name :> field))

getCalibrationInputs(form) == Some(calibrationLoop(form, 1, emptyRecord))

\* the loop of the chart version: a name without a checked input is skipped
\* and remembered as an error
RECURSIVE calibrationLoopChart(_, _, _)
calibrationLoopChart(form, i, acc) ==
  IF i > Len(namesChart) THEN acc
  ELSE LET name == namesChart[i]
           element == form[name]
       IN  IF ~IsNull(element)
           THEN LET field == IF name = "filmingSide" \/ name = "postureCategory"
                             THEN JsString(element[1])
                             ELSE Number(element[1])
                IN  calibrationLoopChart(form, i + 1,
                      [data |-> acc.data @@ (name :> field),
                       errorOccurred |-> acc.errorOccurred])
           ELSE calibrationLoopChart(form, i + 1,
                      [data |-> acc.data, errorOccurred |-> TRUE])

\* the chart version returns undefined when any input was missing
getCalibrationInputsChart(form) ==
  LET acc == calibrationLoopChart(form, 1, [data |-> emptyRecord, errorOccurred |-> FALSE])
  IN  IF acc.errorOccurred THEN Null ELSE Some(acc.data)

CallGetCalibrationInputs ==
  /\ \E form \in Forms :
       /\ args' = [form |-> form, names |-> names]
       /\ ret' = getCalibrationInputs(form)
  /\ pc' = "getCalibrationInputs"
  /\ UNCHANGED <<env, sessionVars>>

CallGetCalibrationInputsChart ==
  /\ \E form \in Forms :
       /\ args' = [form |-> form, names |-> namesChart]
       /\ ret' = getCalibrationInputsChart(form)
  /\ pc' = "getCalibrationInputs"
  /\ UNCHANGED <<env, sessionVars>>

CalibrationNext ==
  \/ CallGetCalibrationInputs
  \/ CallGetCalibrationInputsChart

(* ---------- the additive getFinalREBAScore of the early script --------- *)
getGroupAScore(angles, calibInputs) ==
  LET neckScore == IF angles.neckAngle < Deg(10) THEN 1
                   ELSE IF angles.neckAngle < Deg(20) THEN 2 ELSE 3
      trunkScore == IF angles.trunkFlexionAngle < Deg(20) THEN 1
                    ELSE IF angles.trunkFlexionAngle < Deg(60) THEN 2 ELSE 3
      rotationScore == IF Abs(angles.trunkRotationAngle) < Deg(5) THEN 1
                       ELSE IF Abs(angles.trunkRotationAngle) < Deg(15) THEN 2 ELSE 3
      avgKnee == (angles.leftKneeAngle + angles.rightKneeAngle) \div 2
      kneeScore == IF calibInputs.postureType = "sitting" \/ calibInputs.postureType = "walking"
                   THEN 1
                   ELSE IF avgKnee < Deg(90) THEN 3
                   ELSE IF avgKnee < Deg(120) THEN 2 ELSE 1
      loadCorrection == IF calibInputs.loadForce = 5 THEN 0
                        ELSE IF calibInputs.loadForce = 10 THEN 1 ELSE 2
  IN  neckScore + trunkScore + rotationScore + kneeScore + loadCorrection

\* the statements of getGroupBScore
upperArmBand(shoulderAngle) ==
  IF shoulderAngle < Deg(20) THEN 1 ELSE IF shoulderAngle < Deg(45) THEN 2 ELSE 3

elbowBand(elbowAngle) ==
  IF elbowAngle < Deg(60) THEN 1 ELSE IF elbowAngle < Deg(100) THEN 2 ELSE 3

wristBand(wristAngle) ==
  IF wristAngle < Deg(15) THEN 1 ELSE IF wristAngle < Deg(30) THEN 2 ELSE 3

groupBScoreFrom(leftUpperArmScore, rightUpperArmScore, leftElbowScore, rightElbowScore, leftWristScore, rightWristScore, couplingCorrection) ==
  leftUpperArmScore + rightUpperArmScore + leftElbowScore + rightElbowScore
    + leftWristScore + rightWristScore + couplingCorrection

\* the return statement of the additive getFinalREBAScore
additiveScoreFrom(groupAScore, groupBScore, activityScore) ==
  groupAScore + groupBScore + activityScore

\* the values of the early script's radio buttons
PostureTypes == {"standing", "sitting", "walking"}
LoadForces == {5, 10, 15}
CouplingCorrections == 1..3
ActivityScores == 1..3

\* angles on both sides of the early script's thresholds
EarlyNeckAngles == {Deg(d) : d \in {9, 10, 19, 20}}
EarlyTrunkFlexionAngles == {Deg(d) : d \in {19, 20, 59, 60}}
EarlyTrunkRotationAngles == {Deg(d) : d \in {-15, 4, 5, 14, 15}}
EarlyKneeAngles == {Deg(d) : d \in {0, 90, 120}}
EarlyShoulderAngles == {Deg(d) : d \in {19, 20, 45}}
EarlyElbowAngles == {Deg(d) : d \in {59, 60, 100}}
EarlyWristAngles == {Deg(d) : d \in {14, 15, 30}}

\* the additive getFinalREBAScore, statement by statement; each statement
\* draws the fields it reads
CallGetGroupAScore ==
  /\ pc \in {"idle", "additiveFinal"}
  /\ \E neck \in EarlyNeckAngles, flex \in EarlyTrunkFlexionAngles,
        rot \in EarlyTrunkRotationAngles, l \in EarlyKneeAngles, r \in EarlyKneeAngles,
        posture \in PostureTypes, load \in LoadForces :
       LET angles == [neckAngle |-> neck, trunkFlexionAngle |-> flex,
                      trunkRotationAngle |-> rot, leftKneeAngle |-> l,
                      rightKneeAngle |-> r]
           calibInputs == [postureType |-> posture, loadForce |-> load]
           groupAScore == getGroupAScore(angles, calibInputs)
       IN  /\ args' = [angles |-> angles, calibInputs |-> calibInputs]
           /\ ret' = groupAScore
           /\ env' = [groupAScore |-> groupAScore]
  /\ pc' = "groupA"
  /\ UNCHANGED sessionVars

UpperArmScores ==
  /\ pc = "groupA"
  /\ \E l \in EarlyShoulderAngles, r \in EarlyShoulderAngles :
       /\ args' = [angles |-> [leftShoulderAngle |-> l, rightShoulderAngle |-> r]]
       /\ ret' = ret
       /\ env' = [groupAScore |-> env.groupAScore,
                  leftUpperArmScore |-> upperArmBand(l),
                  rightUpperArmScore |-> upperArmBand(r)]
  /\ pc' = "upperArmScores"
  /\ UNCHANGED sessionVars

ElbowScores ==
  /\ pc = "upperArmScores"
  /\ \E l \in EarlyElbowAngles, r \in EarlyElbowAngles :
       /\ args' = [angles |-> [leftElbowAngle |-> l, rightElbowAngle |-> r]]
       /\ ret' = ret
       /\ env' = [groupAScore |-> env.groupAScore,
                  leftUpperArmScore |-> env.leftUpperArmScore,
                  rightUpperArmScore |-> env.rightUpperArmScore,
                  leftElbowScore |-> elbowBand(l),
                  rightElbowScore |-> elbowBand(r)]
  /\ pc' = "elbowScores"
  /\ UNCHANGED sessionVars

\* the wrist scores, the coupling correction and the return of getGroupBScore
WristScores ==
  /\ pc = "elbowScores"
  /\ \E l \in EarlyWristAngles, r \in EarlyWristAngles, coupling \in CouplingCorrections :
       LET groupBScore ==
             groupBScoreFrom(env.leftUpperArmScore, env.rightUpperArmScore,
                             env.leftElbowScore, env.rightElbowScore,
                             wristBand(l), wristBand(r), coupling)
       IN  /\ args' = [angles |-> [leftWristAngle |-> l, rightWristAngle |-> r],
                       calibInputs |-> [coupling |-> coupling]]
           /\ ret' = groupBScore
           /\ env' = [groupAScore |-> env.groupAScore, groupBScore |-> groupBScore]
  /\ pc' = "groupB"
  /\ UNCHANGED sessionVars

AdditiveFinalScore ==
  /\ pc = "groupB"
  /\ \E activityScore \in ActivityScores :
       /\ args' = [groupAScore |-> env.groupAScore, groupBScore |-> env.groupBScore,
                   calibInputs |-> [activityScore |-> activityScore]]
       /\ ret' = additiveScoreFrom(env.groupAScore, env.groupBScore, activityScore)
       /\ env' = [finalScore |->
                    additiveScoreFrom(env.groupAScore, env.groupBScore, activityScore)]
  /\ pc' = "additiveFinal"
  /\ UNCHANGED sessionVars

AdditiveNext ==
  \/ CallGetGroupAScore
  \/ UpperArmScores
  \/ ElbowScores
  \/ WristScores
  \/ AdditiveFinalScore

(* ---------------- computeAllAngles: the trunk flexion angle ------------ *)
\* image coordinates of a landmark, on the corners of a unit square
Coordinates == {0, 1}
Points == [x : Coordinates, y : Coordinates]

\* the four landmarks the trunk statements read: shoulders 11, 12, hips 23, 24
TrunkLandmarkIndices == {11, 12, 23, 24}
TrunkLandmarks == [TrunkLandmarkIndices -> Points]

\* the values the filmingSide radio group can hand over
FilmingSides == {"left", "right", "", "front"}

\* acos(dot / norm) in degrees against the vertical (0, -1), for the vectors
\* between corners of the unit square; the null vector gives 0 / 0
angleWithVertical(vector) ==
  LET dot == 0 - vector.y
  IN  IF vector.x = 0 /\ vector.y = 0 THEN NaN
      ELSE IF vector.x = 0 THEN JsNumber(IF dot > 0 THEN Deg(0) ELSE Deg(180))
      ELSE IF vector.y = 0 THEN JsNumber(Deg(90))
      ELSE JsNumber(IF dot > 0 THEN Deg(45) ELSE Deg(135))

\* a side choice that falls back to the left for an unrecognised value
trunkIndicesLeftDefault(filmingSide) ==
  IF filmingSide = "right"
  THEN [trunkShoulderIndex |-> 12, trunkHipIndex |-> 24]
  ELSE [trunkShoulderIndex |-> 11, trunkHipIndex |-> 23]

trunkIndices(filmingSide) ==
  IF filmingSide = "left"
  THEN [trunkShoulderIndex |-> 11, trunkHipIndex |-> 23]
  ELSE [trunkShoulderIndex |-> 12, trunkHipIndex |-> 24]

trunkFlexionAngle(landmarks, filmingSide) ==
  LET idx == trunkIndices(filmingSide)
      trunkVector ==
        [x |-> landmarks[idx.trunkHipIndex].x - landmarks[idx.trunkShoulderIndex].x,
         y |-> landmarks[idx.trunkHipIndex].y - landmarks[idx.trunkShoulderIndex].y]
  IN  angleWithVertical(trunkVector)

CallTrunkFlexionAngle ==
  /\ \E landmarks \in TrunkLandmarks, filmingSide \in FilmingSides :
       /\ args' = [landmarks |-> landmarks, filmingSide |-> filmingSide]
       /\ ret' = trunkFlexionAngle(landmarks, filmingSide)
  /\ pc' = "trunkFlexionAngle"
  /\ UNCHANGED <<env, sessionVars>>

\* directions Math.atan2 returns for the shoulder line and the hip line,
\* in whole degrees of (-180, 180]
LineDirections == {Deg(d) : d \in {-179, -175, -90, -5, 0, 4, 9, 10, 90, 175, 180}}

\* trunkRotationAngle = shoulderRotationAngle - hipRotationAngle
trunkRotationAngle(shoulderRotationAngle, hipRotationAngle) ==
  shoulderRotationAngle - hipRotationAngle

\* the trunk rotation angle of computeAllAngles and the trunk sub-score
\* evaluateTrunk derives from it for an upright trunk without lateral flexion
CallTrunkRotationAngle ==
  /\ \E shoulderRotationAngle \in LineDirections, hipRotationAngle \in LineDirections :
       LET rotation == trunkRotationAngle(shoulderRotationAngle, hipRotationAngle)
       IN  /\ args' = [shoulderRotationAngle |-> shoulderRotationAngle,
                       hipRotationAngle |-> hipRotationAngle]
           /\ ret' = rotation
           /\ env' = [trunkScore |->
                        evaluateTrunk([trunkFlexionAngle |-> 0,
                                       trunkRotationAngle |-> rotation],
                                      [trunkLateralFlexion |-> 0])]
  /\ pc' = "trunkRotationAngle"
  /\ UNCHANGED sessionVars

AnglesNext ==
  \/ CallTrunkFlexionAngle
  \/ CallTrunkRotationAngle

(* ------------------- direct calls of the lookup functions -------------- *)
CallGetTableCScore ==
  /\ \E scoreA \in 0..MaxIndex, scoreB \in 0..MaxIndex :
       /\ args' = [scoreA |-> scoreA, scoreB |-> scoreB]
       /\ ret' = getTableCScore(scoreA, scoreB)
  /\ pc' = "getTableCScore"
  /\ UNCHANGED <<env, sessionVars>>

CallGetRiskLevel ==
  /\ \E score \in 0..MaxScoreArg :
       /\ args' = [score |-> score]
       /\ ret' = getRiskLevel(score)
  /\ pc' = "getRiskLevel"
  /\ UNCHANGED <<env, sessionVars>>

CallGetScoreA ==
  /\ \E trunk \in 1..5, neck \in 1..3, leg \in 1..4, load \in Loads :
       /\ args' = [trunk |-> trunk, neck |-> neck, leg |-> leg, loadForce |-> load]
       /\ ret' = getScoreA(trunk, neck, leg, load)
  /\ pc' = "getScoreA"
  /\ UNCHANGED <<env, sessionVars>>

CallGetScoreB ==
  /\ \E upperArm \in 1..6, forearm \in 1..2, wrist \in 1..3, coupling \in Couplings :
       /\ args' = [upperArm |-> upperArm, forearm |-> forearm, wrist |-> wrist,
                   coupling |-> coupling]
       /\ ret' = getScoreB(upperArm, forearm, wrist, coupling)
  /\ pc' = "getScoreB"
  /\ UNCHANGED <<env, sessionVars>>


(* ------------------------------ the chart ------------------------------ *)
\* the loop condition of updateChart
chartFullOffByOne(labels) == Len(labels) > chartDataPoints

chartFull(labels) == Len(labels) >= chartDataPoints

RECURSIVE shiftWhileFull(_)
\* while (labels.length >= chartDataPoints) shift the labels and every dataset
shiftWhileFull(chart) ==
  IF chartFull(chart.labels)
  THEN shiftWhileFull([labels |-> Tail(chart.labels),
                       datasets |-> [i \in 1..3 |-> Tail(chart.datasets[i])]])
  ELSE chart

\* apiData.intermediate_scores.scoreA ?? null
Field(o, name) == IF IsNull(o) THEN Null ELSE o[1][name]

updateChartLabelFromLength(chart, chartExists, apiData) ==
  IF ~chartExists \/ IsNull(apiData) \/ IsNull(apiData[1].intermediate_scores)
  THEN chart
  ELSE LET labels == chart.labels
           newLabel == Len(labels) + 1
           shifted == shiftWhileFull(chart)
           data == apiData[1]
       IN  [labels |-> Append(shifted.labels, newLabel),
            datasets |-> << Append(shifted.datasets[1], data.final_score),
                            Append(shifted.datasets[2],
                                   Field(data.intermediate_scores, "scoreA")),
                            Append(shifted.datasets[3],
                                   Field(data.intermediate_scores, "scoreB")) >>]

updateChart(chart, chartExists, apiData) ==
  IF ~chartExists \/ IsNull(apiData) \/ IsNull(apiData[1].intermediate_scores)
  THEN chart
  ELSE LET labels == chart.labels
           newLabel == IF Len(labels) > 0 THEN labels[Len(labels)] + 1 ELSE 1
           shifted == shiftWhileFull(chart)
           data == apiData[1]
       IN  [labels |-> Append(shifted.labels, newLabel),
            datasets |-> << Append(shifted.datasets[1], data.final_score),
                            Append(shifted.datasets[2],
                                   Field(data.intermediate_scores, "scoreA")),
                            Append(shifted.datasets[3],
                                   Field(data.intermediate_scores, "scoreB")) >>]

\* chartData.labels = []; every dataset.data = []
resetChartData(chart) == emptyChart

(* ------------------------- helpers of the handlers --------------------- *)
\* the JavaScript value undefined
undefined == <<"undefined">>

\* the labels of getRiskLevelText carry the label of getRiskLevel followed by
\* its English name in parentheses; every comparison with NaN is false
getRiskLevelTextLowToFour(score) ==
  IF score = Null \/ score = undefined THEN "N/A"
  ELSE IF score = NaN THEN "Very High (Very High)"
  ELSE IF score[2] <= 0 THEN "N/A"
  ELSE IF score[2] = 1 THEN "Negligible (Negligible)"
  ELSE IF score[2] <= 4 THEN "Low (Low)"
  ELSE IF score[2] <= 7 THEN "Medium (Medium)"
  ELSE IF score[2] <= 10 THEN "High (High)"
  ELSE "Very High (Very High)"

getRiskLevelText(score) ==
  IF score = Null \/ score = undefined THEN "N/A"
  ELSE IF score = NaN THEN "Very High (Very High)"
  ELSE IF score[2] <= 0 THEN "N/A"
  ELSE IF score[2] = 1 THEN "Negligible (Negligible)"
  ELSE IF score[2] <= 3 THEN "Low (Low)"
  ELSE IF score[2] <= 7 THEN "Medium (Medium)"
  ELSE IF score[2] <= 10 THEN "High (High)"
  ELSE "Very High (Very High)"

\* the values getRiskLevelText is called with
RiskTextScores == {Null, undefined, NaN} \cup {JsNumber(n) : n \in (0 - 2)..MaxScoreArg}

CallGetRiskLevelText ==
  /\ \E score \in RiskTextScores :
       /\ args' = [score |-> score]
       /\ ret' = getRiskLevelText(score)
  /\ pc' = "getRiskLevelText"
  /\ UNCHANGED <<env, sessionVars>>

\* the throttle test of predictWebcam
throttleOpenAtInterval(t, last) == t - last >= apiCallInterval

throttleOpenAlways(t, last) == TRUE

throttleOpen(t, last) == t - last > apiCallInterval

\* the maximum update of the response handler
maxAfterResponseOverwrite(max, data) ==
  IF ~IsNull(data.final_score) THEN data.final_score[1] ELSE max

\* a maximum that keeps the first score of the session
maxAfterResponseFirst(max, data) ==
  IF ~IsNull(data.final_score) /\ max = 0
  THEN data.final_score[1]
  ELSE max

maxAfterResponse(max, data) ==
  IF ~IsNull(data.final_score) /\ data.final_score[1] > max
  THEN data.final_score[1]
  ELSE max

\* the summary the stop branch writes
stopSummary(max) ==
  IF max > 0 THEN <<"summary", max, getRiskLevelText(JsNumber(max))>> ELSE <<"noValidScore">>

(* ------------------------------ handlers ------------------------------- *)
\* initPoseLandmarker resumes after its awaits and succeeds; initChart may
\* throw inside its own try/catch and leave rebaChart null
InitModelOk ==
  /\ modelState = "loading"
  /\ modelState' = "ready"
  /\ \E chartOk \in BOOLEAN : rebaChart' = chartOk
  /\ scoreDisplay' = <<"ready">>
  /\ UNCHANGED <<webcamRunning, now, lastApiCallTime, maxRebaScore, chartData,
                 gumPending, srcObject, videoLoaded, loadedListeners, rafPending,
                 inflight, session, clicks, lastClick, issued>>
  /\ UNCHANGED <<engineVars, failures, processed>>

\* initPoseLandmarker catches a load failure: the button stays disabled
InitModelFail ==
  /\ modelState = "loading"
  /\ modelState' = "failed"
  /\ scoreDisplay' = <<"loadError">>
  /\ UNCHANGED <<rebaChart, webcamRunning, now, lastApiCallTime, maxRebaScore,
                 chartData, gumPending, srcObject, videoLoaded, loadedListeners,
                 rafPending, inflight, session, clicks, lastClick, issued>>
  /\ UNCHANGED <<engineVars, failures, processed>>

\* a start branch that runs although the button is disabled
StartCommonWhileDisabled ==
  /\ ~webcamRunning
  /\ clicks < MaxClicks
  /\ webcamRunning' = TRUE
  /\ maxRebaScore' = 0
  /\ scoreDisplay' = <<"starting">>
  /\ gumPending' = gumPending + 1
  /\ session' = session + 1
  /\ clicks' = clicks + 1
  /\ lastClick' = "start"
  /\ processed' = {}
  /\ UNCHANGED <<modelState, rebaChart, now, lastApiCallTime, srcObject,
                 videoLoaded, loadedListeners, rafPending, inflight, issued>>
  /\ UNCHANGED <<engineVars, failures>>

\* what the start branch shares in every version of the click listener:
\* toggle, maximum reset, display, enableCam (getUserMedia is requested).
\* The browser supports getUserMedia, and poseLandmarker is set whenever the
\* button is enabled, so neither early return of enableCam is taken.
StartCommon ==
  /\ modelState = "ready"
  /\ ~webcamRunning
  /\ clicks < MaxClicks
  /\ webcamRunning' = TRUE
  /\ maxRebaScore' = 0
  /\ scoreDisplay' = <<"starting">>
  /\ gumPending' = gumPending + 1
  /\ session' = session + 1
  /\ clicks' = clicks + 1
  /\ lastClick' = "start"
  /\ processed' = {}
  /\ UNCHANGED <<modelState, rebaChart, now, lastApiCallTime, srcObject,
                 videoLoaded, loadedListeners, rafPending, inflight, issued>>
  /\ UNCHANGED <<engineVars, failures>>

\* click while stopped, final version: the chart data is reset as well
ClickStart ==
  /\ StartCommon
  /\ chartData' = resetChartData(chartData)

\* click while stopped, max-score version: the chart reset is commented out
ClickStartKeepChart ==
  /\ StartCommon
  /\ chartData' = chartData

\* click while running: stop the tracks, detach the stream, show the summary
ClickStop ==
  /\ modelState = "ready"
  /\ webcamRunning
  /\ clicks < MaxClicks
  /\ webcamRunning' = FALSE
  /\ srcObject' = FALSE
  /\ videoLoaded' = FALSE
  /\ scoreDisplay' = stopSummary(maxRebaScore)
  /\ clicks' = clicks + 1
  /\ lastClick' = "stop"
  /\ UNCHANGED <<modelState, rebaChart, now, lastApiCallTime, maxRebaScore,
                 chartData, gumPending, loadedListeners, rafPending, inflight,
                 session, issued>>
  /\ UNCHANGED <<engineVars, failures, processed>>

\* getUserMedia resolves: attach the stream, register a once-listener
GumResolve ==
  /\ gumPending > 0
  /\ gumPending' = gumPending - 1
  /\ srcObject' = TRUE
  /\ videoLoaded' = FALSE
  /\ loadedListeners' = loadedListeners + 1
  /\ UNCHANGED <<modelState, rebaChart, webcamRunning, now, lastApiCallTime,
                 maxRebaScore, chartData, scoreDisplay, rafPending, inflight,
                 session, clicks, lastClick, issued>>
  /\ UNCHANGED <<engineVars, failures, processed>>

\* getUserMedia rejects: report it and leave the running state
GumReject ==
  /\ gumPending > 0
  /\ gumPending' = gumPending - 1
  /\ scoreDisplay' = <<"cameraError">>
  /\ webcamRunning' = FALSE
  /\ UNCHANGED <<modelState, rebaChart, now, lastApiCallTime, maxRebaScore,
                 chartData, srcObject, videoLoaded, loadedListeners, rafPending,
                 inflight, session, clicks, lastClick, issued>>
  /\ UNCHANGED <<engineVars, failures, processed>>

\* the attached stream delivers its first frame: every registered
\* once-listener runs and, when running, requests an animation frame
LoadedData ==
  /\ srcObject
  /\ ~videoLoaded
  /\ videoLoaded' = TRUE
  /\ loadedListeners' = 0
  /\ rafPending' = rafPending + (IF webcamRunning THEN loadedListeners ELSE 0)
  /\ UNCHANGED <<modelState, rebaChart, webcamRunning, now, lastApiCallTime,
                 maxRebaScore, chartData, scoreDisplay, gumPending, srcObject,
                 inflight, session, clicks, lastClick, issued>>
  /\ UNCHANGED <<engineVars, failures, processed>>

\* a predictWebcam that waits for the outstanding request: while one is in
\* flight the callback ends without requesting the next frame
PredictWebcamAwaits ==
  /\ rafPending > 0
  /\ IF ~webcamRunning \/ inflight # {}
     THEN /\ rafPending' = rafPending - 1
          /\ UNCHANGED <<lastApiCallTime, inflight, issued>>
     ELSE /\ rafPending' = rafPending
          /\ \E frameReady \in (IF srcObject /\ videoLoaded THEN BOOLEAN ELSE {FALSE}),
                hasLandmarks \in BOOLEAN :
               IF frameReady /\ hasLandmarks /\ throttleOpen(now, lastApiCallTime)
               THEN /\ lastApiCallTime' = now
                    /\ inflight' = inflight \cup {[t |-> now, session |-> session]}
                    /\ issued' = issued \cup {now}
               ELSE UNCHANGED <<lastApiCallTime, inflight, issued>>
  /\ UNCHANGED <<modelState, rebaChart, webcamRunning, now, maxRebaScore,
                 chartData, scoreDisplay, gumPending, srcObject, videoLoaded,
                 loadedListeners, session, clicks, lastClick>>
  /\ UNCHANGED <<engineVars, failures, processed>>

\* one animation-frame callback of predictWebcam, with the synchronous
\* detectForVideo callback and the throttled fetch. getCalibrationInputs
\* always returns an object of plain values, so neither the invalid-input
\* return nor the JSON.stringify catch is taken.
PredictWebcam ==
  /\ rafPending > 0
  /\ IF ~webcamRunning
     THEN /\ rafPending' = rafPending - 1
          /\ UNCHANGED <<lastApiCallTime, inflight, issued>>
     ELSE /\ rafPending' = rafPending
          /\ \E frameReady \in (IF srcObject /\ videoLoaded THEN BOOLEAN ELSE {FALSE}),
                hasLandmarks \in BOOLEAN :
               IF frameReady /\ hasLandmarks /\ throttleOpen(now, lastApiCallTime)
               THEN /\ lastApiCallTime' = now
                    /\ inflight' = inflight \cup {[t |-> now, session |-> session]}
                    /\ issued' = issued \cup {now}
               ELSE UNCHANGED <<lastApiCallTime, inflight, issued>>
  /\ UNCHANGED <<modelState, rebaChart, webcamRunning, now, maxRebaScore,
                 chartData, scoreDisplay, gumPending, srcObject, videoLoaded,
                 loadedListeners, session, clicks, lastClick>>
  /\ UNCHANGED <<engineVars, failures, processed>>

\* a response handler that writes the display without asking whether the
\* session is still running
ResponseOkUnguardedDisplay ==
  /\ \E r \in inflight, data \in ApiResponses :
       /\ inflight' = inflight \ {r}
       /\ maxRebaScore' = maxAfterResponse(maxRebaScore, data)
       /\ processed' = IF IsNull(data.final_score) THEN processed
                       ELSE processed \cup {data.final_score[1]}
       /\ scoreDisplay' = <<"score", data.final_score, data.risk_level>>
       /\ chartData' = IF webcamRunning
                       THEN updateChart(chartData, rebaChart, Some(data))
                       ELSE chartData
  /\ UNCHANGED <<modelState, rebaChart, webcamRunning, now, lastApiCallTime,
                 gumPending, srcObject, videoLoaded, loadedListeners, rafPending,
                 session, clicks, lastClick, issued>>
  /\ UNCHANGED <<engineVars, failures>>

\* a fetch settles with an OK response and a non-null body
ResponseOk ==
  /\ \E r \in inflight, data \in ApiResponses :
       /\ inflight' = inflight \ {r}
       /\ maxRebaScore' = maxAfterResponse(maxRebaScore, data)
       /\ processed' = IF IsNull(data.final_score) THEN processed
                       ELSE processed \cup {data.final_score[1]}
       /\ scoreDisplay' = IF webcamRunning
                          THEN <<"score", data.final_score, data.risk_level>>
                          ELSE scoreDisplay
       /\ chartData' = IF webcamRunning
                       THEN updateChart(chartData, rebaChart, Some(data))
                       ELSE chartData
  /\ UNCHANGED <<modelState, rebaChart, webcamRunning, now, lastApiCallTime,
                 gumPending, srcObject, videoLoaded, loadedListeners, rafPending,
                 session, clicks, lastClick, issued>>
  /\ UNCHANGED <<engineVars, failures>>

\* the catch handler written as the one of enableCam: it leaves the running
\* state
ResponseFailStops ==
  /\ \E r \in inflight, kind \in FailureKinds :
       /\ inflight' = inflight \ {r}
       /\ scoreDisplay' = IF webcamRunning THEN <<"apiError", kind>> ELSE scoreDisplay
       /\ failures' = Append(failures, now)
  /\ webcamRunning' = FALSE
  /\ UNCHANGED <<modelState, rebaChart, now, lastApiCallTime,
                 maxRebaScore, chartData, gumPending, srcObject, videoLoaded,
                 loadedListeners, rafPending, session, clicks, lastClick, issued>>
  /\ UNCHANGED <<engineVars, processed>>

\* a fetch fails: network error, non-OK status, or an OK response whose
\* body is null; all three end in the catch handler
ResponseFail ==
  /\ \E r \in inflight, kind \in FailureKinds :
       /\ inflight' = inflight \ {r}
       /\ scoreDisplay' = IF webcamRunning THEN <<"apiError", kind>> ELSE scoreDisplay
       /\ failures' = Append(failures, now)
  /\ UNCHANGED <<modelState, rebaChart, webcamRunning, now, lastApiCallTime,
                 maxRebaScore, chartData, gumPending, srcObject, videoLoaded,
                 loadedListeners, rafPending, session, clicks, lastClick, issued>>
  /\ UNCHANGED <<engineVars, processed>>

\* time passes
Tick ==
  /\ \E d \in Deltas :
       /\ now + d <= MaxTime
       /\ now' = now + d
  /\ UNCHANGED <<modelState, rebaChart, webcamRunning, lastApiCallTime,
                 maxRebaScore, chartData, scoreDisplay, gumPending, srcObject,
                 videoLoaded, loadedListeners, rafPending, inflight, session,
                 clicks, lastClick, issued>>
  /\ UNCHANGED <<engineVars, failures, processed>>

Init ==
  /\ SessionInit
  /\ EngineInit

Next ==
  \/ InitModelOk
  \/ InitModelFail
  \/ ClickStart
  \/ ClickStop
  \/ GumResolve
  \/ GumReject
  \/ LoadedData
  \/ PredictWebcam
  \/ ResponseOk
  \/ ResponseFail
  \/ Tick

Spec == Init /\ [][Next]_vars

\* the max-score version of the script, whose start branch keeps the chart
NextKeepChart ==
  \/ InitModelOk
  \/ InitModelFail
  \/ ClickStartKeepChart
  \/ ClickStop
  \/ GumResolve
  \/ GumReject
  \/ LoadedData
  \/ PredictWebcam
  \/ ResponseOk
  \/ ResponseFail
  \/ Tick

SpecKeepChart == Init /\ [][NextKeepChart]_vars

\* the scoring engine on its own
SpecEngine == Init /\ [][EngineNext]_vars

\* the lookup functions called directly
LookupNext ==
  \/ CallGetTableCScore
  \/ CallGetRiskLevel
  \/ CallGetScoreA
  \/ CallGetScoreB
  \/ CallGetRiskLevelText

SpecLookup == Init /\ [][LookupNext]_vars

SpecFrame == Init /\ [][FrameNext]_vars

SpecCalibration == Init /\ [][CalibrationNext]_vars

SpecAdditive == Init /\ [][AdditiveNext]_vars

SpecAngles == Init /\ [][AnglesNext]_vars

(* ------------------- the trend buffer filled to capacity --------------- *)
\* number of times the answered body has differed from the previous one
poseChanges == IF pc = "updateChart" THEN env.poseChanges ELSE 0

\* updateChart called with the body of one more answer; the answered body
\* changes at most MaxPoseChanges times
CallUpdateChart ==
  /\ modelState = "ready"
  /\ \E apiData \in ApiResponses :
       LET changed == pc = "updateChart" /\ apiData # args.apiData
           labels == chartData.labels
       IN  /\ changed => poseChanges < MaxPoseChanges
           /\ Len(labels) > 0 => labels[Len(labels)] < MaxTicks
           /\ chartData' = updateChart(chartData, rebaChart, Some(apiData))
           /\ args' = [apiData |-> apiData]
           /\ env' = [poseChanges |-> poseChanges + (IF changed THEN 1 ELSE 0)]
  /\ pc' = "updateChart"
  /\ ret' = 0
  /\ UNCHANGED <<modelState, rebaChart, webcamRunning, now, lastApiCallTime,
                 maxRebaScore, scoreDisplay, gumPending, srcObject, videoLoaded,
                 loadedListeners, rafPending, inflight, session, clicks,
                 lastClick, issued, failures, processed>>

\* the chart reset of the start branch
CallResetChartData ==
  /\ modelState = "ready"
  /\ chartData' = resetChartData(chartData)
  /\ UNCHANGED <<modelState, rebaChart, webcamRunning, now, lastApiCallTime,
                 maxRebaScore, scoreDisplay, gumPending, srcObject, videoLoaded,
                 loadedListeners, rafPending, inflight, session, clicks,
                 lastClick, issued>>
  /\ UNCHANGED <<engineVars, failures, processed>>

ChartNext ==
  \/ InitModelOk
  \/ CallUpdateChart
  \/ CallResetChartData

SpecChart == Init /\ [][ChartNext]_vars

(* =============================== claims ================================ *)
\* C1: for all in-domain angles and calibration inputs getFinalREBAScore
\* returns a final score between 1 and 15.
C1_FinalScoreBounded ==
  pc = "final" => ret \in 1..15

\* a call that ends with the largest score of the scale
C1_Witness ==
  pc = "final" /\ ret = 15 /\ env.tableCScore = 12 /\ env.activityScore = 3

\* the index of the nearest defined Table C edge
ClampIndex(i) == IF i < 1 THEN 1 ELSE IF i > 12 THEN 12 ELSE i

\* C2: getTableCScore answers an index outside the keys of Table C with the
\* entry of the nearest defined edge.
C2_TableCClamped ==
  pc = "getTableCScore" =>
    ret = tableC_Lookup[<<ClampIndex(args.scoreA), ClampIndex(args.scoreB)>>]

\* the risk band the REBA scale assigns to a score
RiskBand(score) ==
  CASE score = 1 -> "Negligible"
    [] score \in 2..3 -> "Low"
    [] score \in 4..7 -> "Medium"
    [] score \in 8..10 -> "High"
    [] score \in 11..15 -> "Very High"

\* C3: for every score in 1..15 getRiskLevel returns Negligible for 1, Low
\* for 2-3, Medium for 4-7, High for 8-10 and Very High for 11-15.
C3_RiskBands ==
  (pc = "getRiskLevel" /\ args.score \in 1..15) => ret = RiskBand(args.score)

\* the upper boundary of the Low band has been classified
C3_Witness ==
  pc = "getRiskLevel" /\ args.score = 3 /\ ret = "Low"

\* C4: every (trunk, neck, leg) triple of 1..5 x 1..3 x 1..4 has a Table A
\* entry and every (upperArm, forearm, wrist) triple of 1..6 x 1..2 x 1..3 has
\* a Table B entry, each entry is in 1..9, and getScoreA / getScoreB return
\* that entry (not the fallback) plus the load / coupling correction.
C4_TablesTotal ==
  /\ pc = "getScoreA" =>
       LET key == <<args.trunk, args.neck, args.leg>>
       IN  /\ key \in DOMAIN tableA_Lookup
           /\ tableA_Lookup[key] \in 1..9
           /\ ret = tableA_Lookup[key] + calcLoadScore(args.loadForce)
  /\ pc = "getScoreB" =>
       LET key == <<args.upperArm, args.forearm, args.wrist>>
       IN  /\ key \in DOMAIN tableB_Lookup
           /\ tableB_Lookup[key] \in 1..9
           /\ ret = tableB_Lookup[key] + args.coupling

\* the last triple of Table A has been looked up
C4_Witness ==
  /\ pc = "getScoreA"
  /\ args.trunk = 5 /\ args.neck = 3 /\ args.leg = 4 /\ args.loadForce = 0
  /\ ret = 9

\* a step that is a start click
StartClick == ~webcamRunning /\ webcamRunning'

\* C5: maxRebaScore never decreases except at a start click, and a start
\* click sets it to 0.
C5_MaxMonotone ==
  [][IF StartClick THEN maxRebaScore' = 0 ELSE maxRebaScore' >= maxRebaScore]_vars

\* a second session has recorded a maximum after the reset
C5_Witness ==
  session = 2 /\ maxRebaScore = 9

\* C6: the trend buffer never holds more than chartDataPoints entries, and an
\* insertion into a full buffer evicts exactly the oldest entry, the others
\* keeping their order.
C6_BoundedFifo ==
  [][/\ Len(chartData'.labels) <= chartDataPoints
     /\ \A i \in 1..3 : Len(chartData'.datasets[i]) <= chartDataPoints
     /\ (/\ Len(chartData.labels) = chartDataPoints
         /\ chartData' # chartData
         /\ Len(chartData'.labels) > 0)
        => /\ Len(chartData'.labels) = chartDataPoints
           /\ SubSeq(chartData'.labels, 1, chartDataPoints - 1) = Tail(chartData.labels)
           /\ \A i \in 1..3 :
                /\ Len(chartData'.datasets[i]) = chartDataPoints
                /\ SubSeq(chartData'.datasets[i], 1, chartDataPoints - 1)
                     = Tail(chartData.datasets[i])]_vars

\* the buffer is full and its two oldest entries have been evicted
C6_Witness ==
  /\ Len(chartData.labels) = chartDataPoints
  /\ chartData.labels[1] = 3
  /\ chartData.datasets[1][1] # chartData.datasets[1][chartDataPoints]

\* C7: no two scoring requests are issued 500 ms or less apart.
C7_Throttled ==
  \A t1 \in issued, t2 \in issued : t1 # t2 => Abs(t1 - t2) > apiCallInterval

\* two requests have been issued
C7_Witness ==
  Cardinality(issued) = 2

\* C8 as stated: at most one scoring request is in flight at any moment.
C8_AtMostOneInFlight ==
  Cardinality(inflight) <= 1

\* C8 amended: at most one scoring request is in flight whenever every
\* outstanding request was issued no more than apiCallInterval ago.
C8_OneInFlightWithinInterval ==
  (\A r \in inflight : now - r.t <= apiCallInterval) => Cardinality(inflight) <= 1

\* a second request is in flight, the first having been answered in time
C8_Witness ==
  /\ Cardinality(issued) = 2
  /\ Cardinality(inflight) = 1
  /\ \A r \in inflight : now - r.t <= apiCallInterval

\* C9: between a stop click and the next start click no request is issued
\* and maxRebaScore and the chart do not change.
C9_StopIsTerminal ==
  [][(lastClick = "stop" /\ lastClick' = "stop")
       => /\ issued' = issued
          /\ maxRebaScore' = maxRebaScore
          /\ chartData' = chartData]_vars

\* C10: immediately after a start click maxRebaScore is 0 and the chart
\* labels and all three datasets are empty.
C10_StartResetsAll ==
  [][StartClick => (maxRebaScore' = 0 /\ chartData' = emptyChart)]_vars

\* a step in which a fetch fails
FetchFailed == Len(failures') = Len(failures) + 1

\* the next animation frame would issue a scoring request
CanIssue ==
  /\ webcamRunning
  /\ rafPending > 0
  /\ srcObject /\ videoLoaded
  /\ throttleOpen(now, lastApiCallTime)

\* C11: a failed request (network error, non-OK status, empty body) leaves
\* maxRebaScore and the chart unchanged, shows itself in the score display
\* and nowhere else, and leaves the throttle and the frame loop as they were,
\* so that a frame that could issue a request before the failure still can.
C11_FailureIsContained ==
  [][FetchFailed =>
       /\ maxRebaScore' = maxRebaScore
       /\ chartData' = chartData
       /\ webcamRunning => scoreDisplay'[1] = "apiError"
       /\ UNCHANGED <<modelState, rebaChart, webcamRunning, lastApiCallTime,
                      gumPending, srcObject, videoLoaded, loadedListeners,
                      rafPending, session>>
       /\ CanIssue => CanIssue']_vars

\* a request failed, the display shows it, and a later frame has issued a new
\* request
C11_Witness ==
  /\ Len(failures) = 1
  /\ scoreDisplay[1] = "apiError"
  /\ \E r \in inflight : r.t > failures[1]

\* the landmark indices the specification names as required
RequiredIndices == {0} \cup 11..16 \cup {19, 20} \cup 23..28

\* C12: when any of the landmarks 0, 11-16, 19, 20, 23-28 is absent,
\* computeAllAngles returns null having computed nothing, and the frame ends
\* there: no final score, no risk level, and the next step is the next frame.
\* When all of them are present the frame goes on to be scored.
C12_MissingLandmarkNoScore ==
  [][/\ pc' \in {"angles", "noAngles"}
          => (pc' = "noAngles" <=> \E idx \in RequiredIndices : idx \notin args'.landmarks)
     /\ pc' = "noAngles"
          => /\ ret' = Null
             /\ DOMAIN args' = {"landmarks"}
             /\ DOMAIN env' = {"warning"}
     /\ pc = "noAngles" => pc' \in {"angles", "noAngles"}
     /\ pc' = "trunk" => pc = "angles"]_vars

\* a landmark set without the right ankle has been rejected
C12_Witness ==
  /\ pc = "noAngles"
  /\ args.landmarks = AllLandmarks \ {28}
  /\ env.warning = 28

\* C13: with the sitting-or-walking posture the leg sub-score is 1 whatever
\* the knee angles and whatever the sub-scores computed before it.
C13_SittingWalkingLegIsOne ==
  (pc = "leg" /\ args.calibInputs.postureCategory = "sittingWalking")
    => (ret = 1 /\ env.legScore = 1)

\* sitting or walking with both knees at 170 degrees, after the highest
\* trunk and neck sub-scores, scored 1
C13_Witness ==
  /\ pc = "leg"
  /\ args.calibInputs.postureCategory = "sittingWalking"
  /\ args.computedAngles.leftKneeAngle = Deg(170)
  /\ args.computedAngles.rightKneeAngle = Deg(170)
  /\ env.trunkScore = 5 /\ env.neckScore = 3
  /\ ret = 1

\* the default the specification documents for a field without a selection
DocumentedDefault(name) ==
  IF name \in {"filmingSide", "postureCategory"} THEN JsString("")
  ELSE IF name = "supportingLeg" THEN JsString("left")
  ELSE IF name = "wristAngleScore" THEN JsNumber(1)
  ELSE JsNumber(0)

\* C14: getCalibrationInputs always returns a record holding a value for
\* every one of its field names: the documented default where nothing is
\* selected, 0 where the selected value of a numeric field is not a number,
\* and the selected value otherwise; it never returns undefined.
C14_CalibrationTotal ==
  pc = "getCalibrationInputs" =>
    /\ ~IsNull(ret)
    /\ DOMAIN ret[1] = {args.names[i] : i \in 1..Len(args.names)}
    /\ \A name \in DOMAIN ret[1] :
         LET element == args.form[name]
             field == ret[1][name]
         IN  IF IsNull(element) THEN field = DocumentedDefault(name)
             ELSE IF name \in {"filmingSide", "postureCategory", "supportingLeg"}
                  THEN field = JsString(element[1])
             ELSE IF element[1] = "abc" THEN field = JsNumber(0)
             ELSE field = JsNumber(1)

\* the knee adjustment of the leg sub-score
KneeAdjustment(avgKnee) ==
  IF avgKnee >= Deg(30) /\ avgKnee <= Deg(60) THEN 1
  ELSE IF avgKnee > Deg(60) THEN 2
  ELSE 0

\* C15: a posture category outside the three recognised values (the empty
\* string included) still yields a leg sub-score, the one of the one-leg
\* branch (base 2 plus the knee adjustment), and the fallback is logged.
C15_PostureFallbackLogged ==
  (/\ pc = "leg"
   /\ args.calibInputs.postureCategory
        \notin {"standingBoth", "standingOne", "sittingWalking"})
    => /\ ret = 2 + KneeAdjustment((args.computedAngles.leftKneeAngle
                                     + args.computedAngles.rightKneeAngle) \div 2)
       /\ "warning" \in DOMAIN env

\* C16: in the neutral scenario (trunk flexion 0, neck 10, standing on both
\* legs, knees 10, load 3 kg, no rotation or bending, upper arms within 20,
\* elbows in 60..100, wrists within 15, no corrections, coupling 0, activity
\* 0) the trunk, neck and leg sub-scores are 1, 1, 1, Group A is the Table A
\* entry for (1,1,1) plus 0, the three arm sub-scores and Group B are 1, and
\* the final score has risk level Negligible or Low.
C16_NeutralScenario ==
  /\ (/\ pc = "trunk"
      /\ args.computedAngles.trunkFlexionAngle = 0
      /\ Abs(args.computedAngles.trunkRotationAngle) < Deg(10)
      /\ args.calibInputs.trunkLateralFlexion = 0) => ret = 1
  /\ (/\ pc = "neck"
      /\ args.computedAngles.neckAngle = Deg(10)
      /\ args.calibInputs.neckRotation = 0
      /\ args.calibInputs.neckLateralBending = 0) => ret = 1
  /\ (/\ pc = "leg"
      /\ args.calibInputs.postureCategory = "standingBoth"
      /\ args.computedAngles.leftKneeAngle = Deg(10)
      /\ args.computedAngles.rightKneeAngle = Deg(10)) => ret = 1
  /\ (/\ pc = "scoreA"
      /\ args.trunk = 1 /\ args.neck = 1 /\ args.leg = 1
      /\ args.loadForce = 3) => ret = tableA_Lookup[<<1, 1, 1>>] + 0
  /\ (/\ pc = "upperArm"
      /\ args.computedAngles.leftShoulderAngle <= Deg(20)
      /\ args.computedAngles.rightShoulderAngle <= Deg(20)
      /\ args.calibInputs.upperArmCorrection = 0
      /\ args.calibInputs.shoulderElevation = 0
      /\ args.calibInputs.gravityAssist = 0) => ret = 1
  /\ (/\ pc = "forearm"
      /\ args.computedAngles.leftElbowAngle \in Deg(60)..Deg(100)
      /\ args.computedAngles.rightElbowAngle \in Deg(60)..Deg(100)) => ret = 1
  /\ (/\ pc = "wrist"
      /\ args.computedAngles.leftWristAngle <= Deg(15)
      /\ args.computedAngles.rightWristAngle <= Deg(15)
      /\ args.calibInputs.wristCorrection = 0) => ret = 1
  /\ (/\ pc = "scoreB"
      /\ args.upperArm = 1 /\ args.forearm = 1 /\ args.wrist = 1
      /\ args.coupling = 0) => ret = tableB_Lookup[<<1, 1, 1>>] + 0
  /\ (/\ pc = "final"
      /\ args.scoreA = tableA_Lookup[<<1, 1, 1>>]
      /\ args.scoreB = tableB_Lookup[<<1, 1, 1>>]
      /\ args.calibInputs.staticPosture = 0
      /\ args.calibInputs.repetitiveMovement = 0
      /\ args.calibInputs.unstableMovement = 0)
       => /\ ret = tableC_Lookup[<<tableA_Lookup[<<1, 1, 1>>], tableB_Lookup[<<1, 1, 1>>]>>]
          /\ env.riskLevel \in {"Negligible", "Low"}

\* the neutral scenario has been scored to the end
C16_Witness ==
  /\ pc = "final"
  /\ args.scoreA = 1 /\ args.scoreB = 1
  /\ args.calibInputs.staticPosture = 0
  /\ args.calibInputs.repetitiveMovement = 0
  /\ args.calibInputs.unstableMovement = 0
  /\ env.activityScore = 0
  /\ env.finalScore = 1
  /\ env.riskLevel = "Negligible"

\* C18: the additive getFinalREBAScore, too, returns a final score in 1..15
\* for all in-domain angles and calibration inputs.
C18_AdditiveScoreBounded ==
  pc = "additiveFinal" => ret \in 1..15

\* C19: while the session stays running, no step takes the frame loop away:
\* a predictWebcam callback requests the next animation frame whether or not
\* it issued a request and whatever requests are outstanding, overdue or
\* failed, and neither a response nor a failure cancels a requested frame.
C19_FrameLoopNeverStalls ==
  [][(webcamRunning /\ webcamRunning' /\ rafPending > 0)
       => /\ rafPending' > 0
          /\ issued' # issued => rafPending' = rafPending]_vars

\* the loop runs on with one request overdue and a second one issued
\* meanwhile
C19_Witness ==
  /\ webcamRunning
  /\ rafPending > 0
  /\ Cardinality(inflight) = 2
  /\ \E r \in inflight : now - r.t > apiCallInterval

\* C20: the trunk sub-score is 1 at flexion 0, 2 in (0, 20], 3 in (20, 60]
\* and 4 above 60, plus exactly 1 when the trunk rotation is at least 10
\* degrees in magnitude or the lateral-flexion input is positive or both; it
\* lies in 1..5.
C20_TrunkScore ==
  pc = "trunk" =>
    LET flex == args.computedAngles.trunkFlexionAngle
        rot == args.computedAngles.trunkRotationAngle
        lat == args.calibInputs.trunkLateralFlexion
        band == IF flex = 0 THEN 1
                ELSE IF flex > 0 /\ flex <= Deg(20) THEN 2
                ELSE IF flex > Deg(20) /\ flex <= Deg(60) THEN 3
                ELSE 4
        extra == IF Abs(rot) >= Deg(10) \/ lat > 0 THEN 1 ELSE 0
    IN  /\ ret = band + extra
        /\ ret \in 1..5

\* flexion above 60 with both a rotation of -10 degrees and lateral flexion
\* scored 5
C20_Witness ==
  /\ pc = "trunk"
  /\ args.computedAngles.trunkFlexionAngle = Deg(61)
  /\ args.computedAngles.trunkRotationAngle = Deg(-10)
  /\ args.calibInputs.trunkLateralFlexion = 1
  /\ ret = 5

\* C21: the neck sub-score is 1 for a neck angle of at most 20 degrees and 2
\* above, plus exactly 1 when the neck-rotation flag or the lateral-bending
\* flag or both are set; it lies in 1..3.
C21_NeckScore ==
  pc = "neck" =>
    LET band == IF args.computedAngles.neckAngle <= Deg(20) THEN 1 ELSE 2
        extra == IF args.calibInputs.neckRotation = 1
                    \/ args.calibInputs.neckLateralBending = 1 THEN 1 ELSE 0
    IN  /\ ret = band + extra
        /\ ret \in 1..3

\* a neck at 21 degrees with both flags set scored 3
C21_Witness ==
  /\ pc = "neck"
  /\ args.computedAngles.neckAngle = Deg(21)
  /\ args.calibInputs.neckRotation = 1
  /\ args.calibInputs.neckLateralBending = 1
  /\ ret = 3

\* C22: outside the sitting-or-walking posture the leg sub-score is base 1
\* (both legs) or base 2 (one leg) plus 1 when the average of the two knee
\* angles is in 30..60 inclusive, plus 2 when it is above 60 and plus 0 when
\* it is below 30; it lies in 1..4.
C22_LegScore ==
  (pc = "leg" /\ args.calibInputs.postureCategory \in {"standingBoth", "standingOne"})
    => LET twiceAvg == args.computedAngles.leftKneeAngle
                         + args.computedAngles.rightKneeAngle
           base == IF args.calibInputs.postureCategory = "standingBoth" THEN 1 ELSE 2
           add == IF twiceAvg < 2 * Deg(30) THEN 0
                  ELSE IF twiceAvg <= 2 * Deg(60) THEN 1
                  ELSE 2
       IN  /\ ret = base + add
           /\ ret \in 1..4

\* one-leg support with knees at 29 and 31 degrees, average exactly 30,
\* scored 3
C22_Witness ==
  /\ pc = "leg"
  /\ args.calibInputs.postureCategory = "standingOne"
  /\ args.computedAngles.leftKneeAngle = Deg(29)
  /\ args.computedAngles.rightKneeAngle = Deg(31)
  /\ ret = 3

\* C23: the Group A score is the Table A entry for (trunk, neck, leg) plus 0
\* for a load below 5 kg, 1 for a load from 5 to 10 kg inclusive and 2 for a
\* load above 10 kg, and never exceeds 11.
C23_GroupAScore ==
  pc = "scoreA" =>
    LET correction == IF args.loadForce < 5 THEN 0
                      ELSE IF args.loadForce >= 5 /\ args.loadForce <= 10 THEN 1
                      ELSE 2
    IN  /\ ret = tableA_Lookup[<<args.trunk, args.neck, args.leg>>] + correction
        /\ ret <= 11

\* the highest sub-scores with a load of 11 kg gave the Group A score 11
C23_Witness ==
  /\ pc = "scoreA"
  /\ args.trunk = 5 /\ args.neck = 3 /\ args.leg = 4
  /\ args.loadForce = 11
  /\ ret = 11

\* C24: the upper-arm sub-score is 1, 2, 3 or 4 for an angle magnitude of at
\* most 20, at most 45, at most 90 or above 90 degrees, plus the three
\* offsets (upper-arm correction, shoulder elevation, gravity assist), the
\* sum clamped into 1..6.
C24_UpperArmScore ==
  pc = "upperArm" =>
    LET twiceAngle == Abs(args.computedAngles.leftShoulderAngle
                           + args.computedAngles.rightShoulderAngle)
        band == IF twiceAngle <= 2 * Deg(20) THEN 1
                ELSE IF twiceAngle <= 2 * Deg(45) THEN 2
                ELSE IF twiceAngle <= 2 * Deg(90) THEN 3
                ELSE 4
        sum == band + args.calibInputs.upperArmCorrection
                 + args.calibInputs.shoulderElevation
                 + args.calibInputs.gravityAssist
    IN  /\ ret = (IF sum < 1 THEN 1 ELSE IF sum > 6 THEN 6 ELSE sum)
        /\ ret \in 1..6

\* an upper arm within 20 degrees with all three offsets negative was raised
\* to 1
C24_Witness ==
  /\ pc = "upperArm"
  /\ args.computedAngles.leftShoulderAngle = Deg(20)
  /\ args.computedAngles.rightShoulderAngle = Deg(20)
  /\ args.calibInputs.upperArmCorrection = -1
  /\ args.calibInputs.shoulderElevation = -1
  /\ args.calibInputs.gravityAssist = -1
  /\ ret = 1

\* the vector from one landmark to another
VectorBetween(landmarks, from, to) ==
  [x |-> landmarks[to].x - landmarks[from].x,
   y |-> landmarks[to].y - landmarks[from].y]

\* C25: the trunk flexion angle is the angle against the vertical of the
\* vector from the left shoulder to the left hip (landmarks 11 and 23) when
\* the filming side is "left", and of the vector from the right shoulder to
\* the right hip (12 and 24) for every other filming side, the empty and the
\* unrecognised one included; the landmarks of the other side play no part.
C25_TrunkSideOnly ==
  pc = "trunkFlexionAngle" =>
    ret = IF args.filmingSide = "left"
          THEN angleWithVertical(VectorBetween(args.landmarks, 11, 23))
          ELSE angleWithVertical(VectorBetween(args.landmarks, 12, 24))

\* with an empty filming side, a left side bent to 90 degrees and an upright
\* right side, the angle is that of the right side
C25_Witness ==
  /\ pc = "trunkFlexionAngle"
  /\ args.filmingSide = ""
  /\ angleWithVertical(VectorBetween(args.landmarks, 11, 23)) = JsNumber(Deg(90))
  /\ angleWithVertical(VectorBetween(args.landmarks, 12, 24)) = JsNumber(Deg(180))
  /\ ret = JsNumber(Deg(180))

\* the greatest element of a non-empty set of numbers
SetMax(S) == CHOOSE m \in S : \A x \in S : x <= m

\* a step that is a stop click
StopClick == webcamRunning /\ lastClick' = "stop" /\ clicks' = clicks + 1

\* C26: the summary written by a stop click shows the greatest final_score
\* of the successful responses handled since the last start click, and the
\* no-valid-score message exactly when no response with a positive
\* final_score was handled since then.
C26_StopSummary ==
  [][StopClick =>
       LET positive == {s \in processed : s > 0}
       IN  IF positive = {}
           THEN scoreDisplay' = <<"noValidScore">>
           ELSE /\ scoreDisplay'[1] = "summary"
                /\ scoreDisplay'[2] = SetMax(positive)]_vars

\* a session in which the scores 9 and 3 were handled has been stopped and
\* its summary shows 9
C26_Witness ==
  /\ lastClick = "stop"
  /\ processed = {3, 9}
  /\ scoreDisplay[1] = "summary"
  /\ scoreDisplay[2] = 9

\* a step in which a fetch settles, with a response or with an error
FetchSettled == inflight' # inflight /\ inflight' \subseteq inflight

\* C27: a response or an error handled while the session is not running
\* writes neither the score display nor the chart.
C27_NoWriteWhenStopped ==
  [][(FetchSettled /\ ~webcamRunning)
       => (scoreDisplay' = scoreDisplay /\ chartData' = chartData)]_vars

\* a session stopped without a score has since handled a response with the
\* score 9: the summary and the empty chart are still there
C27_Witness ==
  /\ ~webcamRunning
  /\ lastClick = "stop"
  /\ scoreDisplay = <<"noValidScore">>
  /\ chartData = emptyChart
  /\ maxRebaScore = 9

\* C28: the settling of a request issued in an earlier session changes
\* neither maxRebaScore nor the chart of the current session.
C28_OldResponsesIgnored ==
  [][\A r \in inflight \ inflight' :
       r.session # session
         => (maxRebaScore' = maxRebaScore /\ chartData' = chartData)]_vars

\* C29: whenever the session has been stopped by a stop click, no camera
\* stream is attached to the video element.
C29_NoStreamWhenStopped ==
  (lastClick = "stop" /\ ~webcamRunning) => ~srcObject

\* C30: there is never more than one pending
\* requestAnimationFrame(predictWebcam) callback.
C30_SingleFrameLoop ==
  rafPending <= 1

\* C31: scoreA lies in 1..11 and scoreB in 1..12, the Table C lookup hits a
\* defined entry with a value in 1..12, and finalScore is exactly
\* tableCScore + activityScore: the clamp to [1,15] changes nothing.
C31_ClampNeverActs ==
  /\ pc = "scoreA" => ret \in 1..11
  /\ pc = "scoreB" => (ret \in 1..12 /\ env.scoreA \in 1..11)
  /\ pc = "final" =>
       /\ args.scoreA \in 1..11
       /\ args.scoreB \in 1..12
       /\ <<args.scoreA, args.scoreB>> \in DOMAIN tableC_Lookup
       /\ env.tableCScore = tableC_Lookup[<<args.scoreA, args.scoreB>>]
       /\ env.tableCScore \in 1..12
       /\ ret = env.tableCScore + env.activityScore

\* the highest Group A and Group B scores with all three activity flags give
\* 12 + 3 = 15
C31_Witness ==
  /\ pc = "final"
  /\ args.scoreA = 11 /\ args.scoreB = 12
  /\ env.tableCScore = 12 /\ env.activityScore = 3
  /\ ret = 15

\* C32: every sub-score lies in the domain of the table it indexes (trunk
\* 1..5, neck 1..3, leg 1..4, upper arm 1..6, forearm 1..2, wrist 1..3), so
\* the keys getScoreA and getScoreB look up are entries of Table A and
\* Table B and the fallback value is not used.
C32_SubScoresInDomain ==
  /\ pc = "trunk" => ret \in 1..5
  /\ pc = "neck" => ret \in 1..3
  /\ pc = "leg" => ret \in 1..4
  /\ pc = "upperArm" => ret \in 1..6
  /\ pc = "forearm" => ret \in 1..2
  /\ pc = "wrist" => ret \in 1..3
  /\ pc = "scoreA" =>
       /\ args.trunk \in 1..5 /\ args.neck \in 1..3 /\ args.leg \in 1..4
       /\ <<args.trunk, args.neck, args.leg>> \in DOMAIN tableA_Lookup
  /\ pc = "scoreB" =>
       /\ args.upperArm \in 1..6 /\ args.forearm \in 1..2 /\ args.wrist \in 1..3
       /\ <<args.upperArm, args.forearm, args.wrist>> \in DOMAIN tableB_Lookup

\* Group B has been looked up at the far corner of Table B
C32_Witness ==
  /\ pc = "scoreB"
  /\ args.upperArm = 6 /\ args.forearm = 2 /\ args.wrist = 3

\* the Group B scores the engine can produce
GroupBScores ==
  {getScoreB(u, f, w, c) : u \in 1..6, f \in 1..2, w \in 1..3, c \in Couplings}

\* C33: with all other components fixed, raising the trunk, neck or leg
\* sub-score or the load, the upper-arm, forearm or wrist sub-score or the
\* coupling value, or the activity score, never lowers the final score.
C33_Monotone ==
  /\ pc = "scoreA" =>
       \A b \in GroupBScores, act \in 0..3 :
         LET base == finalScoreFrom(ret, b, act)
         IN  /\ \A t \in args.trunk..5 :
                  finalScoreFrom(getScoreA(t, args.neck, args.leg, args.loadForce), b, act) >= base
             /\ \A n \in args.neck..3 :
                  finalScoreFrom(getScoreA(args.trunk, n, args.leg, args.loadForce), b, act) >= base
             /\ \A l \in args.leg..4 :
                  finalScoreFrom(getScoreA(args.trunk, args.neck, l, args.loadForce), b, act) >= base
             /\ \A load \in {x \in Loads : x >= args.loadForce} :
                  finalScoreFrom(getScoreA(args.trunk, args.neck, args.leg, load), b, act) >= base
  /\ pc = "scoreB" =>
       \A act \in 0..3 :
         LET base == finalScoreFrom(env.scoreA, ret, act)
         IN  /\ \A u \in args.upperArm..6 :
                  finalScoreFrom(env.scoreA, getScoreB(u, args.forearm, args.wrist, args.coupling), act) >= base
             /\ \A f \in args.forearm..2 :
                  finalScoreFrom(env.scoreA, getScoreB(args.upperArm, f, args.wrist, args.coupling), act) >= base
             /\ \A w \in args.wrist..3 :
                  finalScoreFrom(env.scoreA, getScoreB(args.upperArm, args.forearm, w, args.coupling), act) >= base
             /\ \A c \in args.coupling..3 :
                  finalScoreFrom(env.scoreA, getScoreB(args.upperArm, args.forearm, args.wrist, c), act) >= base
  /\ pc = "final" =>
       \A act \in env.activityScore..3 :
         finalScoreFrom(args.scoreA, args.scoreB, act) >= ret

\* Group B has been scored from the lowest arm sub-scores after a Group A
\* score of 1, so that every component can still be raised
C33_Witness ==
  /\ pc = "scoreB"
  /\ env.scoreA = 1
  /\ args.upperArm = 1 /\ args.forearm = 1 /\ args.wrist = 1 /\ args.coupling = 0
  /\ finalScoreFrom(env.scoreA, getScoreB(6, 2, 3, 3), 3) > finalScoreFrom(env.scoreA, ret, 0)

\* the angle between two directions on the circle
CircleDistance(a, b) ==
  LET d == Abs(a - b)
  IN  IF d > Deg(180) THEN Deg(360) - d ELSE d

\* C34: the trunk rotation angle has magnitude at most 180 degrees, and a
\* shoulder line and a hip line whose directions differ by less than 10
\* degrees on the circle do not earn the rotation point of evaluateTrunk.
C34_RotationWithinHalfTurn ==
  pc = "trunkRotationAngle" =>
    /\ Abs(ret) <= Deg(180)
    /\ CircleDistance(args.shoulderRotationAngle, args.hipRotationAngle) < Deg(10)
         => env.trunkScore = 1

\* the risk band a label of getRiskLevelText names
TextBand(text) ==
  CASE text = "Negligible (Negligible)" -> "Negligible"
    [] text = "Low (Low)" -> "Low"
    [] text = "Medium (Medium)" -> "Medium"
    [] text = "High (High)" -> "High"
    [] text = "Very High (Very High)" -> "Very High"
    [] OTHER -> "none"

\* C35: for every integer score in 1..15 getRiskLevelText names the risk band
\* getRiskLevel returns, and getRiskLevelText returns N/A exactly for null,
\* undefined and scores <= 0.
C35_RiskTextAgrees ==
  pc = "getRiskLevelText" =>
    /\ ret = "N/A" <=>
         \/ args.score \in {Null, undefined}
         \/ args.score \in {JsNumber(n) : n \in (0 - 2)..0}
    /\ \A n \in 1..15 :
         args.score = JsNumber(n) => TextBand(ret) = getRiskLevel(n)

\* getRiskLevelText has labelled the top of the Low band
C35_Witness ==
  /\ pc = "getRiskLevelText"
  /\ args.score = JsNumber(3)
  /\ TextBand(ret) = "Low"

\* every dataset is as long as the label array and the labels are
\* consecutive integers
ChartAligned(chart) ==
  /\ \A i \in 1..3 : Len(chart.datasets[i]) = Len(chart.labels)
  /\ \A i \in 1..(Len(chart.labels) - 1) : chart.labels[i + 1] = chart.labels[i] + 1

\* C36: across every updateChart call and every chart reset the three
\* datasets keep the length of the label array, the labels stay consecutive
\* integers, and the first label written to an emptied chart is 1.
C36_ChartAligned ==
  [][/\ ChartAligned(chartData)
     /\ ChartAligned(chartData')
     /\ (chartData.labels = << >> /\ chartData'.labels # << >>)
          => chartData'.labels = << 1 >>]_vars

\* the chart is full and its oldest point has been dropped
C36_Witness ==
  /\ pc = "updateChart"
  /\ Len(chartData.labels) = chartDataPoints
  /\ chartData.labels[1] > 1

\* C37: a session runs only while the pose model is loaded: webcamRunning
\* implies that initPoseLandmarker succeeded, the start button being disabled
\* while the model loads and after a load failure.
C37_RunningNeedsModel ==
  webcamRunning => modelState = "ready"

\* a second session is running on the loaded model
C37_Witness ==
  /\ webcamRunning
  /\ modelState = "ready"
  /\ session = 2

====
